---- MODULE Spec2Model ----
(***************************************************************************)
(* Model of surf's host-process supervisor (cmd/surf/main.go: `surf host   *)
(* start|stop|status|logs`), of the settings store (load, save, set), of   *)
(* the readiness probes, of profile and mount resolution and of the proxy. *)
(*                                                                         *)
(* Spec     : the host commands for one sanitized profile, typed one at a  *)
(*            time (each a CLI process that runs to its end), while the    *)
(*            operating system's process table and the launched browsers   *)
(*            change on their own between any two system calls.            *)
(* SpecRace : near-simultaneous start, status and logs invocations for     *)
(*            the same profile, interleaved at system-call granularity.    *)
(* SpecSave : concurrent loadSurfSettings and saveSurfSettings calls on    *)
(*            the settings path.                                           *)
(* SpecConfig: one caller at a time of loadSurfSettings and                *)
(*            saveSurfSettings, with an operator editing the file between  *)
(*            processes.                                                   *)
(* SpecSet  : the same with setSurfConfigValue calls.                      *)
(* SpecCli  : whole runs of the surf command line on the settings store.   *)
(* SpecWait : waitForStatus polling evaluateStatus; SpecWaitFair adds that *)
(*            each step of the loop returns.                               *)
(* SpecStatus: one evaluateStatus call, probe by probe.                    *)
(* SpecNames: calls of sanitizeProfileName, of the profile naming of the   *)
(*            host and container commands, and of resolveProfileMount.     *)
(* SpecEnv  : calls of defaultConfig and surfStateDir under environments   *)
(*            and settings.                                                *)
(* SpecOut  : whole runs of status, host status, host stop and host logs,  *)
(*            with what each wrote and how it exited.                      *)
(* SpecProxy: requests through the director of `surf proxy`.               *)
(* SpecLaunch: calls of hostLaunchArgs.                                    *)
(* SpecSetErr: setSurfConfigValue on values normalized or not, and whole   *)
(*            runs of `surf config set`.                                   *)
(* SpecSetRace: a command that only loads the settings beside runs of      *)
(*            `config set`, interleaved at system-call granularity.        *)
(***************************************************************************)
EXTENDS Integers, Sequences, FiniteSets, TLC

\* ------------------------------------------------------------------ bounds

\* CLI invocations that may be in flight at the same time.
NumInv == 2
\* Size of the OS pid space the model draws from.
NumPids == 2
\* Processes that may use the settings store at the same time.
NumSavers == 2
\* Largest retry budget a caller passes to waitForStatus.
MaxAttempts == 3
\* Longest raw profile name handed to sanitizeProfileName.
MaxLen == 3

\* --------------------------------------------------------- program constants

defaultHostCDPPort == 18800
surfSettingsSchemaVersion == 1
defaultImage == "ghcr.io/aureuma/surf-browser:local"
defaultContainer == "surf-playwright-mcp-headed"
defaultNetwork == "si"
defaultHostBind == "127.0.0.1"
defaultMCPPort == 8931
defaultHostMCPPort == 8932
defaultNoVNCPort == 6080
defaultHostNoVNCPort == 6080
defaultMCPVersion == "0.0.64"
defaultProfileName == "default"
defaultTunnelName == "surf-cloudflared"
defaultCloudflaredImg == "cloudflare/cloudflared:latest"
defaultSurfConfigRoot == "~/.si/surf"
defaultSurfConfigFile == "~/.si/surf/settings.toml"
defaultSurfStateDirPath == "~/.surf"
\* Number of liveness polls of cmdHostStop's grace window (100 ms apart).
StopPolls == 20

Invs == 1 .. NumInv
\* Pids straddle a digit boundary, so records differ in serialized length.
PidSet == 9 .. (8 + NumPids)
CdpPorts == {defaultHostCDPPort}
Savers == 1 .. NumSavers

VARIABLES
    hostFile,   \* the record file <state>/browser/host/<profile>.json
    logFile,    \* TRUE once <profile>.log exists
    procs,      \* OS process table, by pid
    inv,        \* per invocation slot: command, position, locals
    stopped,    \* TRUE while the last completed invocation is a successful stop
    setFile,    \* the settings file at surfSettingsPath()
    tmpFiles,   \* the settings-*.toml temp file of each running save
    savers,     \* per process using the settings store: position, locals
    lastRename, \* the bytes moved onto the settings path by the last rename
    readable,   \* TRUE while os.ReadFile can read the settings path
    mem,        \* the settings value the caller of the store holds
    call,       \* the caller's last call of the store, or the CLI's last run
    saved,      \* the value of the last successful save, while no one else wrote
    wait,       \* the running waitForStatus call: position, locals, answers seen
    ev,         \* the running evaluateStatus call: position, payload, probes made
    fn,         \* the last call of a helper function: its name, input and result
    out         \* the last whole run of a status command: flags, streams, exit code

hostVars == <<hostFile, logFile, procs, inv, stopped>>
saveVars == <<setFile, tmpFiles, savers, lastRename>>
cfgVars == <<readable, mem, call, saved>>
waitVars == <<wait>>
statusVars == <<ev>>
fnVars == <<fn>>
outVars == <<out>>
vars == <<hostFile, logFile, procs, inv, stopped, setFile, tmpFiles, savers, lastRename,
          readable, mem, call, saved, wait, ev, fn, out>>

\* What the steps of one part of the program leave alone.
restOfHost == <<saveVars, cfgVars, waitVars, statusVars, fnVars, outVars>>
restOfSave == <<hostVars, cfgVars, waitVars, statusVars, fnVars, outVars>>
restOfConfig == <<hostVars, tmpFiles, savers, lastRename, waitVars, statusVars, fnVars,
                  outVars>>
restOfWait == <<hostVars, saveVars, cfgVars, statusVars, fnVars, outVars>>
restOfStatus == <<hostVars, saveVars, cfgVars, waitVars, fnVars, outVars>>
restOfFn == <<hostVars, saveVars, cfgVars, waitVars, statusVars, outVars>>
restOfOut == <<saveVars, cfgVars, waitVars, statusVars, fnVars>>

\* ------------------------------------------------------------- serialization

DigitChar == <<"0", "1", "2", "3", "4", "5", "6", "7", "8", "9">>
IsDigit(c) == \E d \in 1 .. 10 : DigitChar[d] = c
DigitVal(c) == (CHOOSE d \in 1 .. 10 : DigitChar[d] = c) - 1

RECURSIVE Itoa(_)
Itoa(n) == IF n < 10 THEN <<DigitChar[n + 1]>>
           ELSE Itoa(n \div 10) \o <<DigitChar[(n % 10) + 1]>>

RECURSIVE Atoi(_)
Atoi(s) == IF Len(s) = 0 THEN 0
           ELSE 10 * Atoi(SubSeq(s, 1, Len(s) - 1)) + DigitVal(s[Len(s)])

\* hostProcessState, reduced to the fields the commands act on.
HostState(pid, port) == [PID |-> pid, CDPPort |-> port]
ZeroState == HostState(0, 0)

\* json.MarshalIndent(state): the record as a sequence of tokens.
MarshalState(state) ==
    <<"{", "pid">> \o Itoa(state.PID) \o <<",", "cdp_port">> \o Itoa(state.CDPPort) \o <<"}">>

AllDigits(s, from, to) == from <= to /\ \A k \in from .. to : IsDigit(s[k])

\* json.Unmarshal(data, &state): succeeds only on one complete object.
UnmarshalOK(data) ==
    /\ Len(data) >= 7
    /\ data[1] = "{" /\ data[2] = "pid" /\ data[Len(data)] = "}"
    /\ \E k \in 4 .. (Len(data) - 3) :
          /\ data[k] = "," /\ data[k + 1] = "cdp_port"
          /\ AllDigits(data, 3, k - 1)
          /\ AllDigits(data, k + 2, Len(data) - 1)

UnmarshalState(data) ==
    LET k == CHOOSE j \in 4 .. (Len(data) - 3) : data[j] = "," /\ data[j + 1] = "cdp_port"
    IN  HostState(Atoi(SubSeq(data, 3, k - 1)), Atoi(SubSeq(data, k + 2, Len(data) - 1)))

\* ------------------------------------------------------------------ files

NoFile == [exists |-> FALSE, data |-> <<>>]
FileOf(data) == [exists |-> TRUE, data |-> data]

\* write(2) at offset 0 of a file opened earlier: bytes beyond the written
\* ones stay.
WriteAt0(old, data) ==
    IF Len(old) > Len(data) THEN data \o SubSeq(old, Len(data) + 1, Len(old)) ELSE data

\* readHostState: os.ReadFile then json.Unmarshal.
\* err is "notexist", "parse" or "" (no error).
readHostState ==
    IF ~hostFile.exists THEN [err |-> "notexist", state |-> ZeroState]
    ELSE IF ~UnmarshalOK(hostFile.data) THEN [err |-> "parse", state |-> ZeroState]
    ELSE [err |-> "", state |-> UnmarshalState(hostFile.data)]

\* readHostPID: the pid of the record, 0 on any read error.
readHostPID == IF readHostState.err = "" THEN readHostState.state.PID ELSE 0

\* -------------------------------------------------------------- processes

FreeProc == [kind |-> "free", cdp |-> FALSE]
\* kind: "free" (no process), "browser" (launched by a Start), "other" (an
\* unrelated process of the same user that the OS gave the pid to).
Exists(pid) == pid \in PidSet /\ procs[pid].kind # "free"

\* Variants of processAlive: the kill(pid, 0) result read the wrong way
\* round, and a check of the pid alone with no probe.
processAliveInverted(pid) ==
    IF pid <= 0 THEN FALSE ELSE ~Exists(pid)

processAlivePidOnly(pid) ==
    pid > 0

\* processAlive: kill(pid, 0) succeeds.
processAlive(pid) ==
    IF pid <= 0 THEN FALSE ELSE Exists(pid)

\* probeHTTPStatus on the record's CDP url: the status code, 0 on a
\* transport failure. Every browser of the model listens on the same port.
probeHTTPStatus(port) ==
    IF \E p \in PidSet : procs[p].kind = "browser" /\ procs[p].cdp /\ port \in CdpPorts
    THEN 200 ELSE 0

\* ------------------------------------------------------------- invocations

\* One CLI process. cmd/pc: the command and its position; err, exit: how it
\* ended; state: the record it read or wrote; alive, cdp, ok: the probes'
\* answers; polls: liveness polls done by stop. The other fields record
\* what happened:
\* afterStop (it began right after a successful stop, nothing else running),
\* before (the record file when it began), found (a record file was at the path when it read), pidLive (a process
\* held the record's pid when it probed), term/kill/removed (signals sent,
\* record removed).
Idle == [cmd |-> "", pc |-> "idle", err |-> "", exit |-> 0, state |-> ZeroState,
         alive |-> FALSE, cdp |-> 0, ok |-> FALSE, polls |-> 0,
         afterStop |-> FALSE, found |-> FALSE, pidLive |-> FALSE,
         term |-> FALSE, kill |-> FALSE, removed |-> FALSE, before |-> NoFile]

Active(i) == inv[i].pc # "idle"
Alone == \A j \in Invs : ~Active(j)
At(i, c, p) == inv[i].cmd = c /\ inv[i].pc = p
Done(i, c) == At(i, c, "done")

Step(i, fields) == inv' = [inv EXCEPT ![i] = fields @@ inv[i]]
\* The command returns, or fatal(err) ends it with os.Exit(1).
Finish(i, fields) == Step(i, fields @@ [pc |-> "done"])
fatal(i, e) == Finish(i, [err |-> e, exit |-> 1])

\* A new CLI process for `surf host <c>`.
Begin(i, c) ==
    /\ ~Active(i)
    /\ inv' = [inv EXCEPT ![i] = [Idle EXCEPT !.cmd = c, !.pc = "read",
                                              !.afterStop = (Alone /\ stopped),
                                              !.before = hostFile]]
    /\ stopped' = FALSE
    /\ UNCHANGED <<hostFile, logFile, procs, restOfHost>>

\* Human-paced use: a command is typed when no other is running.
HostStart(i) == Alone /\ Begin(i, "start")
HostStop(i) == Alone /\ Begin(i, "stop")
HostStatus(i) == Alone /\ Begin(i, "status")
HostLogs(i) == Alone /\ Begin(i, "logs")

\* Near-simultaneous use: a command begins while others are running.
RaceStart(i) == ~Active(i) /\ Begin(i, "start")
RaceStatus(i) == ~Active(i) /\ Begin(i, "status")
RaceLogs(i) == ~Active(i) /\ Begin(i, "logs")

\* The CLI process is gone; its slot is free again.
Exit(i) ==
    /\ inv[i].pc = "done"
    /\ inv' = [inv EXCEPT ![i] = Idle]
    /\ stopped' = (inv[i].cmd = "stop" /\ inv[i].exit = 0)
    /\ UNCHANGED <<hostFile, logFile, procs, restOfHost>>

\* ------------------------------------------------------------ cmdHostStart

\* Line 502: pid, _ := readHostPID(pname); pid > 0 && processAlive(pid)
\* -> fatal "already running". The read touches only the file and the probe
\* only the process table, so the two are taken as one step.
StartCheck(i) ==
    /\ At(i, "start", "read")
    /\ LET pid == readHostPID
           seen == [found |-> hostFile.exists, pidLive |-> Exists(pid)]
       IN  IF pid > 0 /\ processAlive(pid)
           THEN Finish(i, seen @@ [err |-> "already running", exit |-> 1, alive |-> TRUE])
           ELSE Step(i, seen @@ [pc |-> "launch"])
    /\ UNCHANGED <<hostFile, logFile, procs, stopped, restOfHost>>

\* Lines 505-515: no browser binary -> fatal.
StartNoBinary(i) ==
    /\ At(i, "start", "launch")
    /\ fatal(i, "binary not found")
    /\ UNCHANGED <<hostFile, logFile, procs, stopped, restOfHost>>

\* Variant of StartLaunchError: the record file is opened for writing
\* before the browser is launched.
StartLaunchErrorAfterOpen(i) ==
    /\ At(i, "start", "launch")
    /\ logFile' = TRUE
    /\ hostFile' = FileOf(<<>>)
    /\ fatal(i, "launch error")
    /\ UNCHANGED <<procs, stopped, restOfHost>>

\* Lines 517-535: the log file is opened (created), then cmd.Start fails.
StartLaunchError(i) ==
    /\ At(i, "start", "launch")
    /\ logFile' = TRUE
    /\ fatal(i, "launch error")
    /\ UNCHANGED <<hostFile, procs, stopped, restOfHost>>

\* Lines 517-547: cmd.Start succeeds; the OS gives the child a free pid.
StartLaunch(i) ==
    /\ At(i, "start", "launch")
    /\ \E pid \in PidSet, port \in CdpPorts :
          /\ procs[pid].kind = "free"
          /\ procs' = [procs EXCEPT ![pid] = [kind |-> "browser", cdp |-> FALSE]]
          /\ Step(i, [pc |-> "open", state |-> HostState(pid, port)])
    /\ logFile' = TRUE
    /\ UNCHANGED <<hostFile, stopped, restOfHost>>

\* writeHostState fails (MkdirAll, or the open of os.WriteFile): fatal,
\* nothing written.
StartOpenError(i) ==
    /\ At(i, "start", "open")
    /\ fatal(i, "io error")
    /\ UNCHANGED <<hostFile, logFile, procs, stopped, restOfHost>>

\* writeHostState, os.WriteFile part 1: open(path, O_WRONLY|O_CREATE|O_TRUNC).
StartOpen(i) ==
    /\ At(i, "start", "open")
    /\ hostFile' = FileOf(<<>>)
    /\ Step(i, [pc |-> "write"])
    /\ UNCHANGED <<logFile, procs, stopped, restOfHost>>

\* os.WriteFile part 2: write(fd, data), close; then the command reports
\* success.
StartWrite(i) ==
    /\ At(i, "start", "write")
    /\ hostFile' = FileOf(WriteAt0(hostFile.data, MarshalState(inv[i].state)))
    /\ Finish(i, [ok |-> TRUE, exit |-> 0])
    /\ UNCHANGED <<logFile, procs, stopped, restOfHost>>

\* ------------------------------------------------------------- cmdHostStop

\* syscall.Kill(pid, sig) on the process table: a signal to a free pid fails
\* (ESRCH, ignored by the caller). The call returns once the signal is
\* queued. ends: the target is gone from the table before the caller's
\* next step; else it ignores or outlasts a SIGTERM, and after a SIGKILL
\* it is still being torn down (or waits to be reaped) and ends later.
Signal(pid, sig, ends) ==
    IF Exists(pid) /\ ends
    THEN [procs EXCEPT ![pid] = FreeProc]
    ELSE procs

\* Variant of StopTerm: a SIGTERM that cannot be delivered is fatal.
StopTermStrict(i) ==
    /\ At(i, "stop", "read")
    /\ LET r == readHostState
       IN  IF r.err # "" THEN /\ fatal(i, r.err) /\ UNCHANGED procs
           ELSE IF r.state.PID <= 0
           THEN /\ Finish(i, [err |-> "invalid pid", exit |-> 1, found |-> TRUE])
                /\ UNCHANGED procs
           ELSE IF ~Exists(r.state.PID)
           THEN /\ Finish(i, [err |-> "no such process", exit |-> 1, found |-> TRUE,
                               state |-> r.state])
                /\ UNCHANGED procs
           ELSE \E obeys \in BOOLEAN :
                  /\ procs' = Signal(r.state.PID, "SIGTERM", obeys)
                  /\ Step(i, [pc |-> "poll", state |-> r.state, found |-> TRUE,
                              pidLive |-> Exists(r.state.PID), term |-> TRUE])
    /\ UNCHANGED <<hostFile, logFile, stopped, restOfHost>>

\* Lines 589-596: readHostState, the pid check, then SIGTERM.
StopTerm(i) ==
    /\ At(i, "stop", "read")
    /\ LET r == readHostState
       IN  IF r.err # "" THEN /\ fatal(i, r.err) /\ UNCHANGED procs
           ELSE IF r.state.PID <= 0
           THEN /\ Finish(i, [err |-> "invalid pid", exit |-> 1, found |-> TRUE])
                /\ UNCHANGED procs
           ELSE \E obeys \in BOOLEAN :
                  /\ procs' = Signal(r.state.PID, "SIGTERM", obeys)
                  /\ Step(i, [pc |-> "poll", state |-> r.state, found |-> TRUE,
                              pidLive |-> Exists(r.state.PID), term |-> TRUE])
    /\ UNCHANGED <<hostFile, logFile, stopped, restOfHost>>

\* Lines 597-602: one turn of the grace loop: leave it when the budget is
\* used up or the pid no longer answers, else sleep 100 ms.
StopPoll(i) ==
    /\ At(i, "stop", "poll")
    /\ IF inv[i].polls < StopPolls /\ processAlive(inv[i].state.PID)
       THEN Step(i, [polls |-> inv[i].polls + 1])
       ELSE Step(i, [pc |-> "final"])
    /\ UNCHANGED <<hostFile, logFile, procs, stopped, restOfHost>>

\* Variant of StopFinal: SIGKILL follows the loop whatever the probe says.
StopFinalAlwaysKill(i) ==
    /\ At(i, "stop", "final")
    /\ Step(i, [pc |-> "kill", alive |-> processAlive(inv[i].state.PID)])
    /\ UNCHANGED <<hostFile, logFile, procs, stopped, restOfHost>>

\* Line 603: the liveness probe after the loop.
StopFinal(i) ==
    /\ At(i, "stop", "final")
    /\ IF processAlive(inv[i].state.PID)
       THEN Step(i, [pc |-> "kill", alive |-> TRUE])
       ELSE Step(i, [pc |-> "remove", alive |-> FALSE])
    /\ UNCHANGED <<hostFile, logFile, procs, stopped, restOfHost>>

\* Line 604: SIGKILL, its result ignored and the target not looked at
\* again.
StopKill(i) ==
    /\ At(i, "stop", "kill")
    /\ \E gone \in BOOLEAN : procs' = Signal(inv[i].state.PID, "SIGKILL", gone)
    /\ Step(i, [pc |-> "remove", kill |-> TRUE])
    /\ UNCHANGED <<hostFile, logFile, stopped, restOfHost>>

\* Variant of StopRemove: the record is removed only when the process had
\* to be killed.
StopRemoveIfKilled(i) ==
    /\ At(i, "stop", "remove")
    /\ hostFile' = IF inv[i].kill THEN NoFile ELSE hostFile
    /\ Finish(i, [ok |-> TRUE, exit |-> 0, removed |-> inv[i].kill])
    /\ UNCHANGED <<logFile, procs, stopped, restOfHost>>

\* Lines 606-611: os.Remove(hostStatePath) with its error ignored, then the
\* command reports success. Removing a file that the same user's Start
\* wrote does not fail.
StopRemove(i) ==
    /\ At(i, "stop", "remove")
    /\ hostFile' = NoFile
    /\ Finish(i, [ok |-> TRUE, exit |-> 0, removed |-> TRUE])
    /\ UNCHANGED <<logFile, procs, stopped, restOfHost>>

\* ----------------------------------------------------------- cmdHostStatus

\* Lines 623-634: readHostState, then alive := processAlive(state.PID).
StatusRead(i) ==
    /\ At(i, "status", "read")
    /\ LET r == readHostState
       IN  IF r.err = "notexist" THEN Finish(i, [err |-> "not running", exit |-> 1])
           ELSE IF r.err # "" THEN fatal(i, r.err)
           ELSE Step(i, [pc |-> "cdp", state |-> r.state, found |-> TRUE,
                         pidLive |-> Exists(r.state.PID),
                         alive |-> processAlive(r.state.PID)])
    /\ UNCHANGED <<hostFile, logFile, procs, stopped, restOfHost>>

\* Variant of StatusOK: the endpoint alone decides.
StatusOKCdpOnly(alive, cdpCode) == cdpCode = 200

\* ok := alive && cdpCode == 200.
StatusOK(alive, cdpCode) == alive /\ cdpCode = 200

\* Variant of StatusProbe: a record whose process is gone is removed.
StatusProbeCleaning(i) ==
    /\ At(i, "status", "cdp")
    /\ LET cdpCode == probeHTTPStatus(inv[i].state.CDPPort)
           ok == StatusOK(inv[i].alive, cdpCode)
       IN  Finish(i, [cdp |-> cdpCode, ok |-> ok, exit |-> IF ok THEN 0 ELSE 1])
    /\ hostFile' = IF inv[i].alive THEN hostFile ELSE NoFile
    /\ UNCHANGED <<logFile, procs, stopped, restOfHost>>

\* Lines 635-661: the CDP probe, the payload, exit 1 unless ok.
StatusProbe(i) ==
    /\ At(i, "status", "cdp")
    /\ LET cdpCode == probeHTTPStatus(inv[i].state.CDPPort)
           ok == StatusOK(inv[i].alive, cdpCode)
       IN  Finish(i, [cdp |-> cdpCode, ok |-> ok, exit |-> IF ok THEN 0 ELSE 1])
    /\ UNCHANGED <<hostFile, logFile, procs, stopped, restOfHost>>

\* ------------------------------------------------------------- cmdHostLogs

\* Lines 672-680: readHostState, then os.ReadFile(state.LogFile).
LogsRead(i) ==
    /\ At(i, "logs", "read")
    /\ LET r == readHostState
       IN  IF r.err # "" THEN fatal(i, r.err)
           ELSE IF ~logFile THEN Finish(i, [err |-> "notexist", exit |-> 1, found |-> TRUE])
           ELSE Finish(i, [state |-> r.state, found |-> TRUE, ok |-> TRUE, exit |-> 0])
    /\ UNCHANGED <<hostFile, logFile, procs, stopped, restOfHost>>

\* ------------------------------------------------------------- environment

\* A browser process exits or crashes on its own.
ProcExit(pid) ==
    /\ procs[pid].kind = "browser"
    /\ procs' = [procs EXCEPT ![pid] = FreeProc]
    /\ UNCHANGED <<hostFile, logFile, inv, stopped, restOfHost>>

\* A browser finishes initializing: its CDP endpoint answers. One listener
\* per port.
EndpointUp(pid) ==
    /\ procs[pid].kind = "browser" /\ ~procs[pid].cdp
    /\ \A q \in PidSet : ~(procs[q].kind = "browser" /\ procs[q].cdp)
    /\ procs' = [procs EXCEPT ![pid].cdp = TRUE]
    /\ UNCHANGED <<hostFile, logFile, inv, stopped, restOfHost>>

\* The OS gives a free pid to an unrelated process.
PidReuse(pid) ==
    /\ procs[pid].kind = "free"
    /\ procs' = [procs EXCEPT ![pid] = [kind |-> "other", cdp |-> FALSE]]
    /\ UNCHANGED <<hostFile, logFile, inv, stopped, restOfHost>>

OtherExit(pid) ==
    /\ procs[pid].kind = "other"
    /\ procs' = [procs EXCEPT ![pid] = FreeProc]
    /\ UNCHANGED <<hostFile, logFile, inv, stopped, restOfHost>>

\* ------------------------------------------------------------------ strings

LowerLetters == "abcdefghijklmnopqrstuvwxyz"
UpperLetters == "ABCDEFGHIJKLMNOPQRSTUVWXYZ"
Digits == "0123456789"

\* s[i .. j], empty when that is no part of s; s[k] as a one-character
\* string; the place of a character in a string (0: not there).
Slice(s, i, j) == IF i < 1 \/ j > Len(s) \/ i > j THEN "" ELSE SubSeq(s, i, j)
CharAt(s, k) == Slice(s, k, k)
IndexOf(c, s) ==
    IF \E k \in 1 .. Len(s) : CharAt(s, k) = c
    THEN CHOOSE k \in 1 .. Len(s) : CharAt(s, k) = c
    ELSE 0

IsSpace(c) == c \in {" ", "\t", "\n", "\r"}

\* strings.TrimSpace
RECURSIVE TrimLeft(_)
TrimLeft(s) == IF Len(s) > 0 /\ IsSpace(CharAt(s, 1))
               THEN TrimLeft(Slice(s, 2, Len(s))) ELSE s
RECURSIVE TrimRight(_)
TrimRight(s) == IF Len(s) > 0 /\ IsSpace(CharAt(s, Len(s)))
                THEN TrimRight(Slice(s, 1, Len(s) - 1)) ELSE s
TrimSpace(s) == TrimRight(TrimLeft(s))

\* strings.ToLower
LowerChar(c) == IF IndexOf(c, UpperLetters) > 0
                THEN CharAt(LowerLetters, IndexOf(c, UpperLetters)) ELSE c
RECURSIVE ToLower(_)
ToLower(s) == IF Len(s) = 0 THEN ""
              ELSE LowerChar(CharAt(s, 1)) \o ToLower(Slice(s, 2, Len(s)))

\* strconv.Atoi(v): an optional sign, then one or more decimal digits.
HasSign(s) == Len(s) > 0 /\ CharAt(s, 1) \in {"+", "-"}
Unsigned(s) == IF HasSign(s) THEN Slice(s, 2, Len(s)) ELSE s
strconvAtoiOK(s) ==
    /\ Len(Unsigned(s)) > 0
    /\ \A k \in 1 .. Len(Unsigned(s)) : IndexOf(CharAt(Unsigned(s), k), Digits) > 0
RECURSIVE DecimalValue(_)
DecimalValue(s) ==
    IF Len(s) = 0 THEN 0
    ELSE 10 * DecimalValue(Slice(s, 1, Len(s) - 1)) + (IndexOf(CharAt(s, Len(s)), Digits) - 1)
strconvAtoi(s) ==
    IF HasSign(s) /\ CharAt(s, 1) = "-" THEN 0 - DecimalValue(Unsigned(s))
    ELSE DecimalValue(Unsigned(s))

\* sanitizeProfileName, lines 1463-1476. ReplaceRuns is
\* regexp `[^a-z0-9_-]+` -> "-": every maximal run of characters outside
\* the class becomes one "-"; inRun tells that the previous character was
\* of such a run.
InClass(c) == IndexOf(c, LowerLetters) > 0 \/ IndexOf(c, Digits) > 0 \/ c \in {"_", "-"}
RECURSIVE ReplaceRuns(_, _)
ReplaceRuns(s, inRun) ==
    IF Len(s) = 0 THEN ""
    ELSE IF InClass(CharAt(s, 1))
         THEN CharAt(s, 1) \o ReplaceRuns(Slice(s, 2, Len(s)), FALSE)
         ELSE (IF inRun THEN "" ELSE "-") \o ReplaceRuns(Slice(s, 2, Len(s)), TRUE)
RECURSIVE TrimDashes(_)
TrimDashes(s) ==
    IF Len(s) > 0 /\ CharAt(s, 1) = "-" THEN TrimDashes(Slice(s, 2, Len(s)))
    ELSE IF Len(s) > 0 /\ CharAt(s, Len(s)) = "-" THEN TrimDashes(Slice(s, 1, Len(s) - 1))
    ELSE s
\* Variant of sanitizeProfileName without the two returns of the default
\* name.
sanitizeProfileNameNoDefault(raw) ==
    TrimDashes(ReplaceRuns(ToLower(TrimSpace(raw)), FALSE))

sanitizeProfileName(raw) ==
    IF TrimSpace(raw) = "" THEN defaultProfileName
    ELSE IF TrimDashes(ReplaceRuns(ToLower(TrimSpace(raw)), FALSE)) = "" THEN defaultProfileName
    ELSE TrimDashes(ReplaceRuns(ToLower(TrimSpace(raw)), FALSE))

\* ------------------------------------------------------------ settings store

\* surfSettings and its nested structs, lines 67-108, as one flat record;
\* TunnelContainerName is Tunnel.ContainerName.
defaultSurfSettings ==
    [SchemaVersion |-> surfSettingsSchemaVersion,
     Root |-> defaultSurfConfigRoot,
     SettingsFile |-> defaultSurfConfigFile,
     StateDir |-> defaultSurfStateDirPath,
     ImageName |-> defaultImage,
     ContainerName |-> defaultContainer,
     Network |-> defaultNetwork,
     ProfileName |-> defaultProfileName,
     ProfileDir |-> "",
     HostBind |-> defaultHostBind,
     HostMCPPort |-> defaultHostMCPPort,
     HostNoVNCPort |-> defaultHostNoVNCPort,
     MCPPort |-> defaultMCPPort,
     NoVNCPort |-> defaultNoVNCPort,
     VNCPassword |-> "surf",
     MCPVersion |-> defaultMCPVersion,
     BrowserChannel |-> "chromium",
     AllowedHosts |-> "*",
     TunnelContainerName |-> defaultTunnelName,
     TargetURL |-> "",
     Mode |-> "quick",
     Image |-> defaultCloudflaredImg,
     VaultKey |-> "",
     UpdatedAt |-> ""]

\* The default settings with a schema version and a tunnel mode of the
\* caller's.
Settings(v, m) == [defaultSurfSettings EXCEPT !.SchemaVersion = v, !.Mode = m]

\* Values a caller may hand to saveSurfSettings.
SaveInputs == {Settings(v, m) : v \in {0, 1, 2}, m \in {"", "token"}}

\* The two tests of applySurfSettingsDefaults: a blank string, a
\* non-positive number.
OrDefault(s, d) == IF TrimSpace(s) = "" THEN d ELSE s
IfPositive(n, d) == IF n <= 0 THEN d ELSE n

\* Lines 199-205: a blank mode is "quick"; a mode that is neither quick nor
\* token once trimmed and lower-cased is "quick"; any other is left as
\* written.
DefaultMode(m) ==
    IF ToLower(TrimSpace(OrDefault(m, "quick"))) \notin {"quick", "token"}
    THEN "quick" ELSE OrDefault(m, "quick")

applySurfSettingsDefaults(st) ==
    [st EXCEPT
        !.SchemaVersion = IfPositive(@, surfSettingsSchemaVersion),
        !.Root = OrDefault(@, defaultSurfConfigRoot),
        !.SettingsFile = OrDefault(@, defaultSurfConfigFile),
        !.StateDir = OrDefault(@, defaultSurfStateDirPath),
        !.ImageName = OrDefault(@, defaultImage),
        !.ContainerName = OrDefault(@, defaultContainer),
        !.Network = OrDefault(@, defaultNetwork),
        !.ProfileName = OrDefault(@, defaultProfileName),
        !.HostBind = OrDefault(@, defaultHostBind),
        !.HostMCPPort = IfPositive(@, defaultHostMCPPort),
        !.HostNoVNCPort = IfPositive(@, defaultHostNoVNCPort),
        !.MCPPort = IfPositive(@, defaultMCPPort),
        !.NoVNCPort = IfPositive(@, defaultNoVNCPort),
        !.VNCPassword = OrDefault(@, "surf"),
        !.MCPVersion = OrDefault(@, defaultMCPVersion),
        !.BrowserChannel = OrDefault(@, "chromium"),
        !.AllowedHosts = OrDefault(@, "*"),
        !.TunnelContainerName = OrDefault(@, defaultTunnelName),
        !.Mode = DefaultMode(@),
        !.Image = OrDefault(@, defaultCloudflaredImg)]

\* The toml tags of lines 67-108 in the order of the fields: the table
\* ("" is the top level), the key, the Go field, its kind, and whether the
\* tag says omitempty.
TomlFields ==
    << [table |-> "", key |-> "schema_version", field |-> "SchemaVersion", kind |-> "int", omitempty |-> FALSE],
       [table |-> "[paths]", key |-> "root", field |-> "Root", kind |-> "string", omitempty |-> TRUE],
       [table |-> "[paths]", key |-> "settings_file", field |-> "SettingsFile", kind |-> "string", omitempty |-> TRUE],
       [table |-> "[paths]", key |-> "state_dir", field |-> "StateDir", kind |-> "string", omitempty |-> TRUE],
       [table |-> "[browser]", key |-> "image_name", field |-> "ImageName", kind |-> "string", omitempty |-> TRUE],
       [table |-> "[browser]", key |-> "container_name", field |-> "ContainerName", kind |-> "string", omitempty |-> TRUE],
       [table |-> "[browser]", key |-> "network", field |-> "Network", kind |-> "string", omitempty |-> TRUE],
       [table |-> "[browser]", key |-> "profile_name", field |-> "ProfileName", kind |-> "string", omitempty |-> TRUE],
       [table |-> "[browser]", key |-> "profile_dir", field |-> "ProfileDir", kind |-> "string", omitempty |-> TRUE],
       [table |-> "[browser]", key |-> "host_bind", field |-> "HostBind", kind |-> "string", omitempty |-> TRUE],
       [table |-> "[browser]", key |-> "host_mcp_port", field |-> "HostMCPPort", kind |-> "int", omitempty |-> TRUE],
       [table |-> "[browser]", key |-> "host_novnc_port", field |-> "HostNoVNCPort", kind |-> "int", omitempty |-> TRUE],
       [table |-> "[browser]", key |-> "mcp_port", field |-> "MCPPort", kind |-> "int", omitempty |-> TRUE],
       [table |-> "[browser]", key |-> "novnc_port", field |-> "NoVNCPort", kind |-> "int", omitempty |-> TRUE],
       [table |-> "[browser]", key |-> "vnc_password", field |-> "VNCPassword", kind |-> "string", omitempty |-> TRUE],
       [table |-> "[browser]", key |-> "mcp_version", field |-> "MCPVersion", kind |-> "string", omitempty |-> TRUE],
       [table |-> "[browser]", key |-> "browser_channel", field |-> "BrowserChannel", kind |-> "string", omitempty |-> TRUE],
       [table |-> "[browser]", key |-> "allowed_hosts", field |-> "AllowedHosts", kind |-> "string", omitempty |-> TRUE],
       [table |-> "[tunnel]", key |-> "container_name", field |-> "TunnelContainerName", kind |-> "string", omitempty |-> TRUE],
       [table |-> "[tunnel]", key |-> "target_url", field |-> "TargetURL", kind |-> "string", omitempty |-> TRUE],
       [table |-> "[tunnel]", key |-> "mode", field |-> "Mode", kind |-> "string", omitempty |-> TRUE],
       [table |-> "[tunnel]", key |-> "image", field |-> "Image", kind |-> "string", omitempty |-> TRUE],
       [table |-> "[tunnel]", key |-> "vault_key", field |-> "VaultKey", kind |-> "string", omitempty |-> TRUE],
       [table |-> "[metadata]", key |-> "updated_at", field |-> "UpdatedAt", kind |-> "string", omitempty |-> TRUE] >>

TomlTables == {TomlFields[k].table : k \in 1 .. Len(TomlFields)} \ {""}

\* strconv.Itoa
RECURSIVE DecimalText(_)
DecimalText(n) ==
    IF n < 10 THEN CharAt(Digits, n + 1)
    ELSE DecimalText(n \div 10) \o CharAt(Digits, (n % 10) + 1)
FormatInt(n) == IF n < 0 THEN "-" \o DecimalText(0 - n) ELSE DecimalText(n)

\* One field as toml.Marshal writes it: nothing for an omitempty field
\* that is zero, else a line of its key and its value; the table's header
\* goes before the first key written of a table.
IsZero(st, k) ==
    IF TomlFields[k].kind = "int" THEN st[TomlFields[k].field] = 0
    ELSE st[TomlFields[k].field] = ""
Written(st, k) == ~(TomlFields[k].omitempty /\ IsZero(st, k))
FirstOfTable(st, k) ==
    /\ TomlFields[k].table # ""
    /\ \A j \in 1 .. (k - 1) : TomlFields[j].table = TomlFields[k].table => ~Written(st, j)
MarshalField(st, k) ==
    IF ~Written(st, k) THEN ""
    ELSE (IF FirstOfTable(st, k) THEN TomlFields[k].table \o "\n" ELSE "")
         \o TomlFields[k].key \o " = "
         \o (IF TomlFields[k].kind = "int" THEN FormatInt(st[TomlFields[k].field])
             ELSE "'" \o st[TomlFields[k].field] \o "'")
         \o "\n"

\* toml.Marshal(settings): the text of the document.
RECURSIVE MarshalFrom(_, _)
MarshalFrom(st, k) ==
    IF k > Len(TomlFields) THEN "" ELSE MarshalField(st, k) \o MarshalFrom(st, k + 1)
MarshalSettings(st) == MarshalFrom(st, 1)

\* The parts of a line of the document: its end (the last line may lack
\* its newline), the place of its " = " (0: none), its field (0: no such
\* key in the table), and whether its value is a number or a string.
RECURSIVE LineEnd(_, _)
LineEnd(data, i) ==
    IF i > Len(data) \/ CharAt(data, i) = "\n" THEN i ELSE LineEnd(data, i + 1)
RECURSIVE EqualsFrom(_, _)
EqualsFrom(line, p) ==
    IF p + 2 > Len(line) THEN 0
    ELSE IF Slice(line, p, p + 2) = " = " THEN p
    ELSE EqualsFrom(line, p + 1)
EqualsAt(line) == EqualsFrom(line, 1)
FieldOfKey(table, key) ==
    IF \E k \in 1 .. Len(TomlFields) : TomlFields[k].table = table /\ TomlFields[k].key = key
    THEN CHOOSE k \in 1 .. Len(TomlFields) : TomlFields[k].table = table /\ TomlFields[k].key = key
    ELSE 0
IntTextOK(val) == strconvAtoiOK(val)
StringTextOK(val) ==
    /\ Len(val) >= 2
    /\ CharAt(val, 1) = "'" /\ CharAt(val, Len(val)) = "'"
    /\ \A p \in 2 .. (Len(val) - 1) : CharAt(val, p) # "'"

\* toml.Unmarshal(data, &settings), line by line from character i on, in
\* the table `table`: a key the document names overwrites that field of st
\* and the others stay; a key the struct has no field for is skipped; a
\* line that is cut short or a value of the wrong type is an error.
RECURSIVE ParseFrom(_, _, _, _)
ParseFrom(data, i, table, st) ==
    IF i > Len(data) THEN [ok |-> TRUE, st |-> st]
    ELSE LET line == Slice(data, i, LineEnd(data, i) - 1)
             next == LineEnd(data, i) + 1
             eq == EqualsAt(line)
             k == IF eq > 1 THEN FieldOfKey(table, Slice(line, 1, eq - 1)) ELSE 0
             val == Slice(line, eq + 3, Len(line))
         IN  IF TrimSpace(line) = "" THEN ParseFrom(data, next, table, st)
             ELSE IF line \in TomlTables THEN ParseFrom(data, next, line, st)
             ELSE IF eq <= 1 THEN [ok |-> FALSE, st |-> st]
             ELSE IF k = 0
             THEN IF IntTextOK(val) \/ StringTextOK(val)
                  THEN ParseFrom(data, next, table, st)
                  ELSE [ok |-> FALSE, st |-> st]
             ELSE IF TomlFields[k].kind = "int"
             THEN IF IntTextOK(val)
                  THEN ParseFrom(data, next, table,
                                 [st EXCEPT ![TomlFields[k].field] = strconvAtoi(val)])
                  ELSE [ok |-> FALSE, st |-> st]
             ELSE IF StringTextOK(val)
                  THEN ParseFrom(data, next, table,
                                 [st EXCEPT ![TomlFields[k].field] =
                                               Slice(val, 2, Len(val) - 1)])
                  ELSE [ok |-> FALSE, st |-> st]

UnmarshalSettingsOK(data) == ParseFrom(data, 1, "", defaultSurfSettings).ok
UnmarshalSettings(data, into) == ParseFrom(data, 1, "", into).st

\* Lines 253-254: settings := defaultSurfSettings(), then the document
\* read over it.
UnmarshalOverDefaults(data) == ParseFrom(data, 1, "", defaultSurfSettings)

\* What a write(2) that stops short leaves: the first half of the bytes.
ShortWrite(data) == SubSeq(data, 1, (Len(data) + 1) \div 2)

\* The settings path, or a temp file next to it, when there is no such
\* file.
NoSettings == [exists |-> FALSE, data |-> ""]

\* The clock reading of time.Now().UTC().Format(time.RFC3339).
Stamps == {"2026-01-01T00:00:00Z"}

\* saveSurfSettings, lines 283-286: what it marshals for the caller's
\* value at clock reading now.
SaveDoc(st, now) ==
    [applySurfSettingsDefaults(st) EXCEPT
        !.Root = defaultSurfConfigRoot,
        !.SettingsFile = defaultSurfConfigFile,
        !.UpdatedAt = now]

\* ------------------------------------------------- settings store, inputs

\* Settings values a caller may build: the defaults with some fields set,
\* normalized or not.
ConfigInputs ==
    { defaultSurfSettings,
      [defaultSurfSettings EXCEPT !.SchemaVersion = 2],
      [defaultSurfSettings EXCEPT !.SchemaVersion = 0, !.Mode = "token",
                                  !.TunnelContainerName = "surf-cloudflared-test",
                                  !.TargetURL = "http://127.0.0.1:6081/vnc.html",
                                  !.VaultKey = "SURF_CLOUDFLARE_TUNNEL_TOKEN"],
      [defaultSurfSettings EXCEPT !.Root = "/srv/surf", !.StateDir = "/srv/surf-state"],
      [defaultSurfSettings EXCEPT !.Mode = "TOKEN"],
      [defaultSurfSettings EXCEPT !.HostMCPPort = -1, !.ImageName = "  ", !.Mode = "bad"],
      [defaultSurfSettings EXCEPT !.HostMCPPort = 9999, !.ProfileName = "work",
                                  !.UpdatedAt = "2025-12-31T00:00:00Z"] }

\* Texts that are not a settings document: one cut short, one with a
\* value of the wrong type, one that is no TOML.
CorruptDocuments ==
    { ShortWrite(MarshalSettings(defaultSurfSettings)),
      "[tunnel]\nmode = 3\n",
      "schema_version 1" }

\* What an operator's editor may leave at the settings path: any of the
\* values above as written out, an empty file, or a corrupt text.
HandEdits == {MarshalSettings(st) : st \in ConfigInputs} \cup {""} \cup CorruptDocuments

\* What the editor leaves in the runs that follow Set calls: an empty
\* file, a token-mode tunnel, a text that is no TOML.
SetEdits ==
    { "",
      "schema_version = 1\n[tunnel]\nmode = 'token'\nvault_key = 'SURF_CLOUDFLARE_TUNNEL_TOKEN'\n",
      "schema_version 1" }

\* The cases of the switch of setSurfConfigValue, lines 319-382: the key,
\* the field it assigns, and how the value is taken.
ConfigKeys ==
    << [key |-> "paths.state_dir", field |-> "StateDir", kind |-> "string"],
       [key |-> "browser.image_name", field |-> "ImageName", kind |-> "string"],
       [key |-> "browser.container_name", field |-> "ContainerName", kind |-> "string"],
       [key |-> "browser.network", field |-> "Network", kind |-> "string"],
       [key |-> "browser.profile_name", field |-> "ProfileName", kind |-> "profile"],
       [key |-> "browser.profile_dir", field |-> "ProfileDir", kind |-> "string"],
       [key |-> "browser.host_bind", field |-> "HostBind", kind |-> "string"],
       [key |-> "browser.host_mcp_port", field |-> "HostMCPPort", kind |-> "int"],
       [key |-> "browser.host_novnc_port", field |-> "HostNoVNCPort", kind |-> "int"],
       [key |-> "browser.mcp_port", field |-> "MCPPort", kind |-> "int"],
       [key |-> "browser.novnc_port", field |-> "NoVNCPort", kind |-> "int"],
       [key |-> "browser.vnc_password", field |-> "VNCPassword", kind |-> "string"],
       [key |-> "browser.mcp_version", field |-> "MCPVersion", kind |-> "string"],
       [key |-> "browser.browser_channel", field |-> "BrowserChannel", kind |-> "string"],
       [key |-> "browser.allowed_hosts", field |-> "AllowedHosts", kind |-> "string"],
       [key |-> "tunnel.container_name", field |-> "TunnelContainerName", kind |-> "string"],
       [key |-> "tunnel.target_url", field |-> "TargetURL", kind |-> "string"],
       [key |-> "tunnel.mode", field |-> "Mode", kind |-> "mode"],
       [key |-> "tunnel.image", field |-> "Image", kind |-> "string"],
       [key |-> "tunnel.vault_key", field |-> "VaultKey", kind |-> "string"] >>

\* The case of the switch that k selects (0: the default case).
CaseOfKey(k) ==
    IF \E c \in 1 .. Len(ConfigKeys) : ConfigKeys[c].key = k
    THEN CHOOSE c \in 1 .. Len(ConfigKeys) : ConfigKeys[c].key = k
    ELSE 0

\* Variant of setSurfConfigValue: the settings are normalized before the
\* key is looked at.
setSurfConfigValueNormalizing(settings, key, value) ==
    LET k == ToLower(TrimSpace(key))
        v == TrimSpace(value)
        c == CaseOfKey(k)
        kind == IF c = 0 THEN "" ELSE ConfigKeys[c].kind
        err == IF c = 0 THEN "unsupported key"
               ELSE IF kind = "int" /\ ~strconvAtoiOK(v) THEN "invalid int"
               ELSE IF kind = "mode" /\ ToLower(v) \notin {"quick", "token"} THEN "invalid mode"
               ELSE ""
        assigned == IF kind = "int" THEN strconvAtoi(v)
                    ELSE IF kind = "mode" THEN ToLower(v)
                    ELSE IF kind = "profile" THEN sanitizeProfileName(v)
                    ELSE v
    IN  IF err # "" THEN [err |-> err, settings |-> applySurfSettingsDefaults(settings)]
        ELSE [err |-> "",
              settings |-> applySurfSettingsDefaults(
                               [settings EXCEPT ![ConfigKeys[c].field] = assigned])]

\* setSurfConfigValue(&settings, key, value), lines 313-385: the error
\* returned and the settings as the call leaves them.
setSurfConfigValue(settings, key, value) ==
    LET k == ToLower(TrimSpace(key))
        v == TrimSpace(value)
        c == CaseOfKey(k)
        kind == IF c = 0 THEN "" ELSE ConfigKeys[c].kind
        err == IF c = 0 THEN "unsupported key"
               ELSE IF kind = "int" /\ ~strconvAtoiOK(v) THEN "invalid int"
               ELSE IF kind = "mode" /\ ToLower(v) \notin {"quick", "token"} THEN "invalid mode"
               ELSE ""
        assigned == IF kind = "int" THEN strconvAtoi(v)
                    ELSE IF kind = "mode" THEN ToLower(v)
                    ELSE IF kind = "profile" THEN sanitizeProfileName(v)
                    ELSE v
    IN  IF err # "" THEN [err |-> err, settings |-> settings]
        ELSE [err |-> "",
              settings |-> applySurfSettingsDefaults(
                               [settings EXCEPT ![ConfigKeys[c].field] = assigned])]

\* Keys and values an operator may type.
SetKeys ==
    {"tunnel.mode", " Tunnel.Mode ", "browser.host_mcp_port", "browser.image_name",
     "browser.profile_name", "schema_version", "paths.root"}
SetValues == {"token", "TOKEN", "bad", "9999", "-5", "12a", "", " My Profile "}

\* ------------------------------------------------ settings store, tabulated

\* What the store computes for the values and documents it meets, worked
\* out once and looked up afterwards. bytes: what lines 283-290 marshal for
\* a value; read: what lines 253-254 read from a document; bases: the
\* values a Set is called on (the defaults and what a load returns after
\* one of SetEdits or after the defaults were saved); set: what
\* setSurfConfigValue leaves of a base.
BytesOf(values) ==
    [st \in values |-> [now \in Stamps |-> MarshalSettings(SaveDoc(st, now))]]
DocumentsOf(bytes) == {bytes[st][now] : st \in DOMAIN bytes, now \in Stamps}
ReadOf(documents) == [d \in documents |-> UnmarshalOverDefaults(d)]
LoadsOf(read, documents) ==
    {applySurfSettingsDefaults(read[d].st) : d \in {e \in documents : read[e].ok}}
SetsOf(bases) ==
    [st \in bases |-> [key \in SetKeys |-> [value \in SetValues |->
        setSurfConfigValue(st, key, value)]]]
ResultsOf(set) ==
    {set[st][key][value].settings : st \in DOMAIN set, key \in SetKeys, value \in SetValues}

\* The documents an editor or the save of a built value leaves, read.
StoreOfInputs ==
    [read |-> ReadOf(HandEdits \cup SetEdits
                     \cup DocumentsOf(BytesOf(ConfigInputs \cup SaveInputs)))]
\* The values a Set is called on, and what it leaves of them.
StoreOfSets(s) ==
    [read |-> s.read,
     set |-> SetsOf({defaultSurfSettings}
                    \cup LoadsOf(s.read, SetEdits \cup DocumentsOf(BytesOf({defaultSurfSettings}))))]
\* All the values met, marshalled.
StoreOfBytes(s) ==
    [read |-> s.read, set |-> s.set,
     bytes |-> BytesOf(ConfigInputs \cup SaveInputs \cup DOMAIN s.set
                       \cup LoadsOf(s.read, DOMAIN s.read) \cup ResultsOf(s.set))]
\* All the documents met, read.
StoreOfAll(s) ==
    [set |-> s.set, bytes |-> s.bytes, bases |-> DOMAIN s.set,
     read |-> ReadOf(DOMAIN s.read \cup DocumentsOf(s.bytes))]
Store == StoreOfAll(StoreOfBytes(StoreOfSets(StoreOfInputs)))

\* A value or document outside the tables is worked out on the spot.
ReadIn(read, data) ==
    IF data \in DOMAIN read THEN read[data] ELSE UnmarshalOverDefaults(data)
BytesIn(bytes, st, now) ==
    IF st \in DOMAIN bytes THEN bytes[st][now] ELSE MarshalSettings(SaveDoc(st, now))
SetIn(set, st, key, value) ==
    IF st \in DOMAIN set /\ key \in SetKeys /\ value \in SetValues
    THEN set[st][key][value] ELSE setSurfConfigValue(st, key, value)

ReadDocument(data) == ReadIn(Store.read, data)
SaveBytes(st, now) == BytesIn(Store.bytes, st, now)
SetValue(st, key, value) == SetIn(Store.set, st, key, value)
SetBases == Store.bases

\* The documents the saves of SaveInputs and of the defaults leave.
SavedDocuments ==
    {SaveBytes(st, now) : st \in SaveInputs \cup {defaultSurfSettings}, now \in Stamps}

\* One process using the store. cmd: "save" (a caller of saveSurfSettings)
\* or "load" (loadSurfSettings); data: the bytes line 287 marshalled for
\* the save; got: what its read of the settings path found ("absent",
\* "complete", "partial").
SaverIdle == [cmd |-> "", pc |-> "idle", data |-> "", err |-> "", got |-> ""]

SaverAt(p, pc) == savers[p].pc = pc
SaverStep(p, fields) == savers' = [savers EXCEPT ![p] = fields @@ savers[p]]
SaveData(p) == savers[p].data

\* saveSurfSettings(settings), lines 278-290: MkdirAll, defaults, marshal.
SaveBegin(p) ==
    /\ SaverAt(p, "idle")
    /\ \E st \in SaveInputs, now \in Stamps :
          savers' = [savers EXCEPT ![p] =
                       [SaverIdle EXCEPT !.cmd = "save", !.pc = "create",
                                         !.data = SaveBytes(st, now)]]
    /\ UNCHANGED <<setFile, tmpFiles, lastRename, restOfSave>>

\* loadSurfSettings, lines 233-263: read the settings path; absent ->
\* save the defaults; unparseable -> the defaults and an error; else the
\* normalized document, saved back.
LoadRead(p) ==
    /\ SaverAt(p, "idle")
    /\ \E now \in Stamps :
       IF ~setFile.exists
       THEN savers' = [savers EXCEPT ![p] =
                         [SaverIdle EXCEPT !.cmd = "load", !.pc = "create", !.got = "absent",
                                           !.data = SaveBytes(applySurfSettingsDefaults(
                                                                  defaultSurfSettings), now)]]
       ELSE IF ~ReadDocument(setFile.data).ok
       THEN savers' = [savers EXCEPT ![p] =
                         [SaverIdle EXCEPT !.cmd = "load", !.pc = "done", !.got = "partial",
                                           !.err = "parse"]]
       ELSE savers' = [savers EXCEPT ![p] =
                         [SaverIdle EXCEPT !.cmd = "load", !.pc = "create", !.got = "complete",
                                           !.data = SaveBytes(applySurfSettingsDefaults(
                                                        ReadDocument(setFile.data).st), now)]]
    /\ UNCHANGED <<setFile, tmpFiles, lastRename, restOfSave>>

\* Line 291: os.CreateTemp(dir, "settings-*.toml"): a new, empty file of
\* its own name.
SaveCreateTemp(p) ==
    /\ SaverAt(p, "create")
    /\ tmpFiles' = [tmpFiles EXCEPT ![p] = FileOf("")]
    /\ SaverStep(p, [pc |-> "write"])
    /\ UNCHANGED <<setFile, lastRename, restOfSave>>

\* Variant of SaveWrite: the bytes go to the settings path itself.
SaveWriteInPlace(p) ==
    /\ SaverAt(p, "write")
    /\ setFile' = FileOf(ShortWrite(SaveData(p)))
    /\ SaverStep(p, [pc |-> "flush"])
    /\ UNCHANGED <<tmpFiles, lastRename, restOfSave>>

\* Line 300: tmp.Write(data), the first bytes reaching the temp file.
SaveWrite(p) ==
    /\ SaverAt(p, "write")
    /\ tmpFiles' = [tmpFiles EXCEPT ![p] = FileOf(ShortWrite(SaveData(p)))]
    /\ SaverStep(p, [pc |-> "flush"])
    /\ UNCHANGED <<setFile, lastRename, restOfSave>>

\* Lines 300-309: the rest of the bytes, Close, Chmod.
SaveFlush(p) ==
    /\ SaverAt(p, "flush")
    /\ tmpFiles' = [tmpFiles EXCEPT ![p] = FileOf(SaveData(p))]
    /\ SaverStep(p, [pc |-> "rename"])
    /\ UNCHANGED <<setFile, lastRename, restOfSave>>

\* Line 310: os.Rename(tmp.Name(), path); the deferred os.Remove then finds
\* no temp file.
SaveRename(p) ==
    /\ SaverAt(p, "rename")
    /\ setFile' = tmpFiles[p]
    /\ tmpFiles' = [tmpFiles EXCEPT ![p] = NoSettings]
    /\ lastRename' = tmpFiles[p].data
    /\ SaverStep(p, [pc |-> "done"])
    /\ UNCHANGED restOfSave

\* Any step of lines 291-310 fails: the error is returned and the deferred
\* os.Remove deletes the temp file, if there is one.
SaveFail(p) ==
    /\ savers[p].pc \in {"create", "write", "flush", "rename"}
    /\ tmpFiles' = [tmpFiles EXCEPT ![p] = NoSettings]
    /\ SaverStep(p, [pc |-> "done", err |-> "io error"])
    /\ UNCHANGED <<setFile, lastRename, restOfSave>>

\* The caller goes on; the process is free for its next call.
SaverExit(p) ==
    /\ SaverAt(p, "done")
    /\ savers' = [savers EXCEPT ![p] = SaverIdle]
    /\ UNCHANGED <<setFile, tmpFiles, lastRename, restOfSave>>

\* ------------------------------------------ config set, beside other runs

\* `surf config set` as a process using the store, after the load of main
\* (lines 133-137, a LoadRead like that of any other command):
\* loadSurfSettingsOrDefault, setSurfConfigValue, saveSurfSettings, lines
\* 734-740. In cmd, "set" is the load of line 734 and "set save" the save
\* of line 738; st is the value the load made, field and value what the
\* Set assigned.

\* The keys and values given to the `config set` runs that meet others.
RaceKeys == {"tunnel.mode", "browser.host_mcp_port"}
RaceValues == {"token", "9999"}

\* Line 734, loadSurfSettingsOrDefault: loadSurfSettings once more.
SetLoad(p) ==
    /\ SaverAt(p, "done")
    /\ savers[p].cmd = "load" /\ savers[p].err = ""
    /\ \E now \in Stamps :
       IF ~setFile.exists
       THEN SaverStep(p, [cmd |-> "set", pc |-> "create", got |-> "absent",
                          st |-> applySurfSettingsDefaults(defaultSurfSettings),
                          data |-> SaveBytes(applySurfSettingsDefaults(defaultSurfSettings),
                                             now)])
       ELSE IF ~ReadDocument(setFile.data).ok
       THEN SaverStep(p, [cmd |-> "set", pc |-> "done", got |-> "partial", err |-> "parse",
                          st |-> applySurfSettingsDefaults(defaultSurfSettings)])
       ELSE SaverStep(p, [cmd |-> "set", pc |-> "create", got |-> "complete",
                          st |-> applySurfSettingsDefaults(ReadDocument(setFile.data).st),
                          data |-> SaveBytes(applySurfSettingsDefaults(
                                                 ReadDocument(setFile.data).st), now)])
    /\ UNCHANGED <<setFile, tmpFiles, lastRename, restOfSave>>

\* What loadSurfSettingsOrDefault returns, lines 266-275: the value of the
\* load, or the defaults under a warning when the load returned an error.
LoadedOrDefault(p) ==
    IF savers[p].err # "" THEN applySurfSettingsDefaults(defaultSurfSettings)
    ELSE savers[p].st

\* Lines 735-740: the Set, fatal on its error, then the save begins.
SetAndSave(p, key, value) ==
    /\ SaverAt(p, "done")
    /\ savers[p].cmd = "set"
    /\ \E now \in Stamps, r \in {SetValue(LoadedOrDefault(p), key, value)} :
          SaverStep(p, [cmd |-> "set save", pc |-> IF r.err = "" THEN "create" ELSE "done",
                        data |-> IF r.err = "" THEN SaveBytes(r.settings, now) ELSE "",
                        err |-> r.err, got |-> "",
                        field |-> ConfigKeys[CaseOfKey(key)].field,
                        value |-> r.settings[ConfigKeys[CaseOfKey(key)].field]])
    /\ UNCHANGED <<setFile, tmpFiles, lastRename, restOfSave>>

\* The process of a command ends: after the load of main for a command
\* that only reads, after a fatal error, after the save of `config set`.
RunEnd(p) ==
    /\ SaverAt(p, "done")
    /\ savers[p].cmd \in {"load", "set save"}
    /\ savers' = [savers EXCEPT ![p] = SaverIdle]
    /\ UNCHANGED <<setFile, tmpFiles, lastRename, restOfSave>>

\* ------------------------------------------- settings store, call by call

\* e under the name the body F gives it.
With(e, F(_)) == F(e)

\* saveSurfSettings(settings) run to its end on the settings file `file`:
\* ok tells whether MkdirAll, CreateTemp, Write, Close, Chmod and Rename all
\* succeed. The result: the error returned and the file left.
saveSurfSettings(file, settings, now, ok) ==
    IF ok THEN [err |-> "", file |-> FileOf(SaveBytes(settings, now))]
    ELSE [err |-> "io error", file |-> file]

\* What os.ReadFile and toml.Unmarshal find at the settings path; ok is
\* whether the document there can be parsed.
FoundOf(file, rd, ok) ==
    IF ~file.exists THEN "absent"
    ELSE IF ~rd THEN "unreadable"
    ELSE IF ~ok THEN "corrupt"
    ELSE "complete"
Found(file, rd) == FoundOf(file, rd, ReadDocument(file.data).ok)

\* fallback := defaultSurfSettings(); applySurfSettingsDefaults(&fallback)
Fallback == applySurfSettingsDefaults(defaultSurfSettings)

\* loadSurfSettings with the parse and read errors swallowed.
loadSurfSettingsSilent(file, rd, now, dirOK, saveOK) ==
    With(ReadDocument(file.data), LAMBDA parsed :
        IF ~dirOK THEN [settings |-> Fallback, err |-> "mkdir error", file |-> file]
        ELSE IF file.exists /\ (~rd \/ ~parsed.ok)
        THEN [settings |-> Fallback, err |-> "", file |-> file]
        ELSE With(IF file.exists THEN applySurfSettingsDefaults(parsed.st) ELSE Fallback,
                  LAMBDA settings :
                      [settings |-> settings] @@ saveSurfSettings(file, settings, now, saveOK)))

\* loadSurfSettings without the save of lines 244-246.
loadSurfSettingsNoCreate(file, rd, now, dirOK, saveOK) ==
    With(ReadDocument(file.data), LAMBDA parsed :
        IF ~dirOK THEN [settings |-> Fallback, err |-> "mkdir error", file |-> file]
        ELSE IF ~file.exists THEN [settings |-> Fallback, err |-> "", file |-> file]
        ELSE IF ~rd THEN [settings |-> Fallback, err |-> "read error", file |-> file]
        ELSE IF ~parsed.ok THEN [settings |-> Fallback, err |-> "parse error", file |-> file]
        ELSE With(applySurfSettingsDefaults(parsed.st),
                  LAMBDA settings :
                      [settings |-> settings] @@ saveSurfSettings(file, settings, now, saveOK)))

\* loadSurfSettings saving the defaults over a file it cannot read or parse.
loadSurfSettingsRepairing(file, rd, now, dirOK, saveOK) ==
    With(ReadDocument(file.data), LAMBDA parsed :
        IF ~dirOK THEN [settings |-> Fallback, err |-> "mkdir error", file |-> file]
        ELSE IF file.exists /\ ~rd
        THEN [settings |-> Fallback, err |-> "read error",
              file |-> saveSurfSettings(file, Fallback, now, saveOK).file]
        ELSE IF file.exists /\ ~parsed.ok
        THEN [settings |-> Fallback, err |-> "parse error",
              file |-> saveSurfSettings(file, Fallback, now, saveOK).file]
        ELSE With(IF file.exists THEN applySurfSettingsDefaults(parsed.st) ELSE Fallback,
                  LAMBDA settings :
                      [settings |-> settings] @@ saveSurfSettings(file, settings, now, saveOK)))

\* loadSurfSettings(), lines 232-264, run to its end: dirOK is MkdirAll's
\* success and saveOK that of its saveSurfSettings call. The result: the
\* settings and the error returned, and the file left. The defaults (no
\* file) or the normalized document are saved and returned, with the
\* save's error if any; a file that cannot be read or parsed is left alone.
loadSurfSettings(file, rd, now, dirOK, saveOK) ==
    With(ReadDocument(file.data), LAMBDA parsed :
        IF ~dirOK THEN [settings |-> Fallback, err |-> "mkdir error", file |-> file]
        ELSE IF file.exists /\ ~rd
        THEN [settings |-> Fallback, err |-> "read error", file |-> file]
        ELSE IF file.exists /\ ~parsed.ok
        THEN [settings |-> Fallback, err |-> "parse error", file |-> file]
        ELSE With(IF file.exists THEN applySurfSettingsDefaults(parsed.st) ELSE Fallback,
                  LAMBDA settings :
                      [settings |-> settings] @@ saveSurfSettings(file, settings, now, saveOK)))

\* loadSurfSettingsOrDefault(), lines 266-275: on an error, a warning on
\* stderr and the defaults.
loadSurfSettingsOrDefault(file, rd, now, dirOK, saveOK) ==
    With(loadSurfSettings(file, rd, now, dirOK, saveOK), LAMBDA r :
        [settings |-> IF r.err # "" THEN Fallback ELSE r.settings,
         warned |-> r.err # "",
         file |-> r.file])

\* The caller's last call and what came of it. op: "load", "save", "set",
\* "cli" or "" (none yet in this process); found: what was at the settings
\* path when it began; key and value: the arguments of the set (kept by the
\* save that follows it), or the command and key of a CLI run; err: the
\* error returned ("" for nil); exit and warned: the exit code and the
\* stderr warning of a CLI run. The settings a load returned or a set left
\* are what the caller holds, mem.
NoCall == [op |-> "", found |-> "", key |-> "", value |-> "", err |-> "",
           exit |-> 0, warned |-> FALSE]
NoSave == [valid |-> FALSE, arg |-> defaultSurfSettings]

\* A process starts: nothing in its memory, no call made.
NewProcess ==
    /\ call.op # ""
    /\ mem' = defaultSurfSettings
    /\ call' = NoCall
    /\ UNCHANGED <<setFile, readable, saved, restOfConfig>>

\* The caller builds a value of its own.
TakeInput(st) ==
    /\ call.op = ""
    /\ mem = defaultSurfSettings /\ st # defaultSurfSettings
    /\ mem' = st
    /\ UNCHANGED <<setFile, readable, call, saved, restOfConfig>>

\* settings, err := loadSurfSettings()
LoadCall(dirOK, saveOK) ==
    \E now \in Stamps :
        \E r \in {loadSurfSettings(setFile, readable, now, dirOK, saveOK)} :
            /\ setFile' = r.file
            /\ mem' = r.settings
            /\ call' = [NoCall EXCEPT !.op = "load", !.found = Found(setFile, readable),
                                      !.err = r.err]
            /\ UNCHANGED <<readable, saved, restOfConfig>>

\* err := saveSurfSettings(settings), of the value the caller holds.
SaveCall(ok) ==
    \E now \in Stamps :
        \E r \in {saveSurfSettings(setFile, mem, now, ok)},
           afterSet \in {call.op = "set" /\ call.err = ""} :
            /\ setFile' = r.file
            /\ readable' = (readable \/ ok)
            /\ call' = [NoCall EXCEPT !.op = "save", !.found = Found(setFile, readable),
                                      !.key = IF afterSet THEN call.key ELSE "",
                                      !.value = IF afterSet THEN call.value ELSE "",
                                      !.err = r.err]
            /\ saved' = IF ok THEN [valid |-> TRUE, arg |-> mem] ELSE saved
            /\ UNCHANGED <<mem, restOfConfig>>

\* err := setSurfConfigValue(&settings, key, value), on the defaults or on
\* what a load returned.
SetCall(key, value) ==
    /\ mem \in SetBases
    /\ \E r \in {SetValue(mem, key, value)} :
          /\ mem' = r.settings
          /\ call' = [NoCall EXCEPT !.op = "set", !.key = key, !.value = value, !.err = r.err]
    /\ UNCHANGED <<setFile, readable, saved, restOfConfig>>

\* err := setSurfConfigValue(&settings, key, value) as the first call of
\* a process, on whatever value it holds, normalized or not.
SetOnInput(key, value) ==
    /\ call.op = ""
    /\ \E r \in {SetValue(mem, key, value)} :
          /\ mem' = r.settings
          /\ call' = [NoCall EXCEPT !.op = "set", !.key = key, !.value = value, !.err = r.err]
    /\ UNCHANGED <<setFile, readable, saved, restOfConfig>>

\* Between two processes the operator edits the settings file by hand,
\* removes it, or changes its permissions.
EditFile(doc) ==
    /\ setFile # FileOf(doc)
    /\ setFile' = FileOf(doc)
    /\ readable' = TRUE
    /\ mem' = defaultSurfSettings /\ call' = NoCall /\ saved' = NoSave
    /\ UNCHANGED restOfConfig

RemoveFile ==
    /\ setFile.exists
    /\ setFile' = NoSettings
    /\ readable' = TRUE
    /\ mem' = defaultSurfSettings /\ call' = NoCall /\ saved' = NoSave
    /\ UNCHANGED restOfConfig

Chmod ==
    /\ setFile.exists
    /\ readable' = ~readable
    /\ mem' = defaultSurfSettings /\ call' = NoCall /\ saved' = NoSave
    /\ UNCHANGED <<setFile, restOfConfig>>

\* --------------------------------------------------------------- the CLI

\* The commands of main's switch that use the settings store only, and
\* the two it answers without the store; "" is surf with no argument.
CliCommands ==
    {"", "help", "version", "config show", "config set", "config path", "config init",
     "config init --force"}

\* Which of a run's file-system calls fails, if any: the MkdirAll or the
\* save of main's loadSurfSettings, the save of the handler's
\* loadSurfSettingsOrDefault, or the handler's own saveSurfSettings.
IOPlans == {"ok", "mkdir", "main save", "handler load save", "handler save"}

\* The result of a run: its exit code, the error it died of ("" for
\* none), whether it warned on stderr, the settings it used, the file left.
CliResult(exit, err, warned, ret, file) ==
    [exit |-> exit, err |-> err, warned |-> warned, ret |-> ret, file |-> file]

\* cmdConfigShow, lines 703-720.
cmdConfigShow(file, rd, now, io) ==
    With(loadSurfSettingsOrDefault(file, rd, now, TRUE, io # "handler load save"), LAMBDA r :
        CliResult(0, "", r.warned, r.settings, r.file))

\* cmdConfigSet, lines 722-750.
cmdConfigSet(key, value, file, rd, now, io) ==
    IF TrimSpace(key) = ""
    THEN CliResult(1, "--key is required", FALSE, defaultSurfSettings, file)
    ELSE With(loadSurfSettingsOrDefault(file, rd, now, TRUE, io # "handler load save"), LAMBDA r :
         With(SetValue(r.settings, key, value), LAMBDA s :
            IF s.err # "" THEN CliResult(1, s.err, r.warned, r.settings, r.file)
            ELSE With(saveSurfSettings(r.file, s.settings, now, io # "handler save"), LAMBDA w :
                    CliResult(IF w.err # "" THEN 1 ELSE 0, w.err, r.warned, s.settings, w.file))))

\* cmdConfigInit, lines 761-788.
cmdConfigInit(force, file, now, io) ==
    IF ~force /\ file.exists
    THEN CliResult(0, "", FALSE, defaultSurfSettings, file)
    ELSE With(saveSurfSettings(file, Fallback, now, io # "handler save"), LAMBDA w :
            CliResult(IF w.err # "" THEN 1 ELSE 0, w.err, FALSE, defaultSurfSettings, w.file))

\* main, lines 122-167: with no argument, a best-effort load and the
\* usage text; help and version at once; for any other command
\* loadSurfSettings first, its error fatal (lines 134-136, fatal at lines
\* 1557-1560), then the command's handler.
main(cmd, key, value, file, rd, now, io) ==
    IF cmd \in {"help", "version"}
    THEN CliResult(0, "", FALSE, defaultSurfSettings, file)
    ELSE With(loadSurfSettings(file, rd, now, io # "mkdir", io # "main save"), LAMBDA r :
            IF cmd = "" THEN CliResult(1, "usage", FALSE, r.settings, r.file)
            ELSE IF r.err # "" THEN CliResult(1, r.err, FALSE, r.settings, r.file)
            ELSE IF cmd = "config show" THEN cmdConfigShow(r.file, rd, now, io)
            ELSE IF cmd = "config set" THEN cmdConfigSet(key, value, r.file, rd, now, io)
            ELSE IF cmd = "config path" THEN CliResult(0, "", FALSE, r.settings, r.file)
            ELSE cmdConfigInit(cmd = "config init --force", r.file, now, io))

\* Keys and values of `surf config set --key .. --value ..` runs.
CliKeys == {"tunnel.mode", "schema_version", ""}
CliValues == {"token", "bad"}

\* One run of the CLI, from its start to its exit; key and value are the
\* flags of config set, read by no other command.
RunCli(cmd, key, value, io) ==
    \E now \in Stamps :
        \E r \in {main(cmd, key, value, setFile, readable, now, io)} :
            /\ cmd # "config set" => (key = "" /\ value = "token")
            /\ setFile' = r.file
            /\ readable' = (readable \/ r.file # setFile)
            /\ call' = [NoCall EXCEPT !.op = "cli", !.found = Found(setFile, readable),
                                      !.key = cmd, !.value = key,
                                      !.err = r.err, !.exit = r.exit, !.warned = r.warned]
            /\ mem' = defaultSurfSettings
            /\ saved' = NoSave
            /\ UNCHANGED restOfConfig

\* ----------------------------------------------------------- waitForStatus

\* HTTP status codes a probe may report; 0: no answer.
HTTPCodes == {0, 200, 400}

\* What `docker ps` may do: fail, list nothing, or list the container.
DockerPs == {"error", "none", "running"}

\* A statusPayload, lines 87-101, without the names and URLs: the flags,
\* the four probe codes and the error text.
NoStatus ==
    [OK |-> FALSE, ContainerRunning |-> FALSE, MCPReady |-> FALSE, NoVNCReady |-> FALSE,
     MCPHostCode |-> 0, NoVNCHostCode |-> 0, MCPContainerCode |-> 0,
     NoVNCContainerCode |-> 0, Error |-> ""]

\* Variant of MCPCodeReady: 200 alone counts.
MCPCodeReadyOnly200(code) == code = 200

\* Lines 1109 and 1119; lines 1113 and 1125.
MCPCodeReady(code) == code = 200 \/ code = 400
NoVNCCodeReady(code) == code >= 200 /\ code < 400

\* evaluateStatus(cfg), lines 1091-1135: ps is what docker ps does; mh and
\* nh are the codes of the host probes, mc and nc those of the probes made
\* inside the container, asked only for an endpoint the host probe did not
\* find ready. The result: the payload and the error returned.
evaluateStatus(ps, mh, nh, mc, nc) ==
    IF ps = "error" THEN [status |-> NoStatus, err |-> "docker error"]
    ELSE IF ps = "none"
    THEN [status |-> [NoStatus EXCEPT !.Error = "container not running"], err |-> ""]
    ELSE LET mcpReady == MCPCodeReady(mh) \/ MCPCodeReady(mc)
             novncReady == NoVNCCodeReady(nh) \/ NoVNCCodeReady(nc)
             ok == mcpReady /\ novncReady
         IN  [status |-> [OK |-> ok, ContainerRunning |-> TRUE,
                          MCPReady |-> mcpReady, NoVNCReady |-> novncReady,
                          MCPHostCode |-> mh, NoVNCHostCode |-> nh,
                          MCPContainerCode |-> IF MCPCodeReady(mh) THEN 0 ELSE mc,
                          NoVNCContainerCode |-> IF NoVNCCodeReady(nh) THEN 0 ELSE nc,
                          Error |-> IF ok THEN "" ELSE "endpoint checks failed"],
              err |-> ""]

\* The text waitForStatus reports when no evaluation left one.
TimeoutError == "browser health checks did not pass in time"

\* A waitForStatus call: pc is "idle" (no call), "loop" (at the loop's
\* test), "sleep" (in time.Sleep) or "done" (returned); retries and i are
\* the argument and the loop counter, calls the number of evaluateStatus
\* calls made, last the local of line 1138; seen
\* lists, for each payload evaluateStatus returned to this call, its OK
\* flag and its error text; ret and err are what the call returned.
WaitIdle ==
    [pc |-> "idle", retries |-> 0, i |-> 0, calls |-> 0, last |-> NoStatus, seen |-> <<>>,
     ret |-> NoStatus, err |-> ""]

Answer(status) == [OK |-> status.OK, Error |-> status.Error]

\* waitForStatus(cfg, retries, delay) is called.
WaitBegin(retries) ==
    /\ wait.pc = "idle"
    /\ wait' = [WaitIdle EXCEPT !.pc = "loop", !.retries = retries]
    /\ UNCHANGED restOfWait

\* The loop without lines 1145-1147: an ok payload does not end the call.
WaitEvaluateNoStop(ps, mh, nh, mc, nc) ==
    LET r == evaluateStatus(ps, mh, nh, mc, nc)
    IN  /\ wait.pc = "loop" /\ wait.i < wait.retries
        /\ ps # "running" => (mh = 0 /\ nh = 0)
        /\ MCPCodeReady(mh) \/ ps # "running" => mc = 0
        /\ NoVNCCodeReady(nh) \/ ps # "running" => nc = 0
        /\ wait' = IF r.err # ""
                   THEN [wait EXCEPT !.pc = "done", !.calls = @ + 1,
                                     !.ret = NoStatus, !.err = r.err]
                   ELSE [wait EXCEPT !.pc = "sleep", !.calls = @ + 1, !.last = r.status,
                                     !.seen = Append(@, Answer(r.status))]
        /\ UNCHANGED restOfWait

\* The loop with line 1142 returning the last payload beside the error.
WaitEvaluateKeepsLast(ps, mh, nh, mc, nc) ==
    LET r == evaluateStatus(ps, mh, nh, mc, nc)
    IN  /\ wait.pc = "loop" /\ wait.i < wait.retries
        /\ ps # "running" => (mh = 0 /\ nh = 0)
        /\ MCPCodeReady(mh) \/ ps # "running" => mc = 0
        /\ NoVNCCodeReady(nh) \/ ps # "running" => nc = 0
        /\ wait' = IF r.err # ""
                   THEN [wait EXCEPT !.pc = "done", !.calls = @ + 1,
                                     !.ret = wait.last, !.err = r.err]
                   ELSE IF r.status.OK
                   THEN [wait EXCEPT !.pc = "done", !.calls = @ + 1, !.last = r.status,
                                     !.seen = Append(@, Answer(r.status)),
                                     !.ret = r.status, !.err = ""]
                   ELSE [wait EXCEPT !.pc = "sleep", !.calls = @ + 1, !.last = r.status,
                                     !.seen = Append(@, Answer(r.status))]
        /\ UNCHANGED restOfWait

\* Lines 1139-1148: the loop's test holds; evaluateStatus is called; its
\* error or an ok payload ends the call, anything else leads to the sleep.
WaitEvaluate(ps, mh, nh, mc, nc) ==
    LET r == evaluateStatus(ps, mh, nh, mc, nc)
    IN  /\ wait.pc = "loop" /\ wait.i < wait.retries
        /\ ps # "running" => (mh = 0 /\ nh = 0)
        /\ MCPCodeReady(mh) \/ ps # "running" => mc = 0
        /\ NoVNCCodeReady(nh) \/ ps # "running" => nc = 0
        /\ wait' = IF r.err # ""
                   THEN [wait EXCEPT !.pc = "done", !.calls = @ + 1,
                                     !.ret = NoStatus, !.err = r.err]
                   ELSE IF r.status.OK
                   THEN [wait EXCEPT !.pc = "done", !.calls = @ + 1, !.last = r.status,
                                     !.seen = Append(@, Answer(r.status)),
                                     !.ret = r.status, !.err = ""]
                   ELSE [wait EXCEPT !.pc = "sleep", !.calls = @ + 1, !.last = r.status,
                                     !.seen = Append(@, Answer(r.status))]
        /\ UNCHANGED restOfWait

\* Line 1149 and the loop's i++: time.Sleep(delay) returns.
WaitSleep ==
    /\ wait.pc = "sleep"
    /\ wait' = [wait EXCEPT !.pc = "loop", !.i = @ + 1]
    /\ UNCHANGED restOfWait

\* The return of lines 1151-1154 with the timeout text in every case.
WaitExhaustedGeneric ==
    /\ wait.pc = "loop" /\ wait.i >= wait.retries
    /\ LET last == [wait.last EXCEPT !.Error = TimeoutError]
       IN  wait' = [wait EXCEPT !.pc = "done", !.last = last, !.ret = last,
                                !.err = last.Error]
    /\ UNCHANGED restOfWait

\* Lines 1151-1154: the loop's test fails; the last payload is returned
\* with its error text, or with the timeout text when it has none.
WaitExhausted ==
    /\ wait.pc = "loop" /\ wait.i >= wait.retries
    /\ LET last == IF TrimSpace(wait.last.Error) = ""
                   THEN [wait.last EXCEPT !.Error = TimeoutError]
                   ELSE wait.last
       IN  wait' = [wait EXCEPT !.pc = "done", !.last = last, !.ret = last,
                                !.err = last.Error]
    /\ UNCHANGED restOfWait

\* ---------------------------------------------------------- evaluateStatus

\* Status codes a server may answer a probe with.
StatusCodes == {199, 200, 302, 399, 400, 404, 500}

\* What client.Get does for probeHTTPStatus: a transport failure, or a
\* response with a status code.
HostAnswers ==
    {[failed |-> TRUE, code |-> 0]} \cup {[failed |-> FALSE, code |-> c] : c \in StatusCodes}

\* Lines 1246-1255, on the answer of client.Get.
probeHTTPStatusOf(answer) == IF answer.failed THEN 0 ELSE answer.code

\* What `docker exec <name> sh -lc "curl ... -w '%{http_code}'"` does for
\* probeContainerHTTPStatus: the exec fails, or it prints a text.
ExecTexts == {"", "000", "20x", "199", "200", " 200\n", "302", "399", "400", "404", "500"}
ExecAnswers ==
    {[failed |-> TRUE, text |-> ""]} \cup {[failed |-> FALSE, text |-> t] : t \in ExecTexts}

\* Lines 1257-1267, on the answer of runDockerOutput.
probeContainerHTTPStatus(answer) ==
    IF answer.failed THEN 0
    ELSE IF ~strconvAtoiOK(TrimSpace(answer.text)) THEN 0
    ELSE strconvAtoi(TrimSpace(answer.text))

\* An evaluateStatus call: pc is "idle" (no call), "mcp", "novnc" (before
\* the host probes), "mcpIn", "novncIn" (before the probes made inside the
\* container), "ret" (before line 1130) or "done"; ps is what docker ps
\* did; status and err are the payload being filled and the error
\* returned; probes lists the probes made, each with the answer it got.
EvalIdle == [pc |-> "idle", ps |-> "", status |-> NoStatus, err |-> "", probes |-> <<>>]

Probe(name, answer) == [name |-> name, failed |-> answer.failed, code |-> answer.code,
                        text |-> answer.text]
HostProbe(name, answer) == Probe(name, answer @@ [text |-> ""])
ExecProbe(name, answer) == Probe(name, answer @@ [code |-> 0])

\* Lines 1097-1106 with the early return taken out: the probes follow
\* whatever docker ps listed.
EvaluateBeginProbing(ps) ==
    /\ ev.pc \in {"idle", "done"}
    /\ ev' = IF ps = "error"
             THEN [EvalIdle EXCEPT !.pc = "done", !.ps = ps, !.err = "docker error"]
             ELSE IF ps = "none"
             THEN [EvalIdle EXCEPT !.pc = "mcp", !.ps = ps,
                                   !.status.Error = "container not running"]
             ELSE [EvalIdle EXCEPT !.pc = "mcp", !.ps = ps,
                                   !.status.ContainerRunning = TRUE]
    /\ UNCHANGED restOfStatus

\* Lines 1091-1106: docker ps; its error is returned; a container that is
\* not listed ends the call with "container not running".
EvaluateBegin(ps) ==
    /\ ev.pc \in {"idle", "done"}
    /\ ev' = IF ps = "error"
             THEN [EvalIdle EXCEPT !.pc = "done", !.ps = ps, !.err = "docker error"]
             ELSE IF ps = "none"
             THEN [EvalIdle EXCEPT !.pc = "done", !.ps = ps,
                                   !.status.Error = "container not running"]
             ELSE [EvalIdle EXCEPT !.pc = "mcp", !.ps = ps,
                                   !.status.ContainerRunning = TRUE]
    /\ UNCHANGED restOfStatus

\* Lines 1108-1111: the host probe of the MCP url.
EvaluateMCPHost(answer) ==
    /\ ev.pc = "mcp"
    /\ ev' = [ev EXCEPT !.pc = "novnc",
                        !.status.MCPHostCode = probeHTTPStatusOf(answer),
                        !.status.MCPReady = MCPCodeReady(probeHTTPStatusOf(answer)),
                        !.probes = Append(@, HostProbe("mcp host", answer))]
    /\ UNCHANGED restOfStatus

\* Lines 1112-1115: the host probe of the noVNC url.
EvaluateNoVNCHost(answer) ==
    /\ ev.pc = "novnc"
    /\ ev' = [ev EXCEPT !.pc = "mcpIn",
                        !.status.NoVNCHostCode = probeHTTPStatusOf(answer),
                        !.status.NoVNCReady = NoVNCCodeReady(probeHTTPStatusOf(answer)),
                        !.probes = Append(@, HostProbe("novnc host", answer))]
    /\ UNCHANGED restOfStatus

\* Lines 1117-1122 without the test of line 1117: the probe inside the
\* container is made whatever the host probe found.
EvaluateMCPContainerAlways(answer) ==
    /\ ev.pc = "mcpIn"
    /\ ev' = [ev EXCEPT !.pc = "novncIn",
                        !.status.MCPContainerCode = probeContainerHTTPStatus(answer),
                        !.status.MCPReady =
                            @ \/ MCPCodeReady(probeContainerHTTPStatus(answer)),
                        !.probes = Append(@, ExecProbe("mcp container", answer))]
    /\ UNCHANGED restOfStatus

\* Lines 1117-1122: the MCP probe inside the container, made only when the
\* host probe did not find the endpoint ready.
EvaluateMCPContainer(answer) ==
    /\ ev.pc = "mcpIn"
    /\ ev' = IF ev.status.MCPReady
             THEN [ev EXCEPT !.pc = "novncIn"]
             ELSE [ev EXCEPT !.pc = "novncIn",
                             !.status.MCPContainerCode = probeContainerHTTPStatus(answer),
                             !.status.MCPReady =
                                 MCPCodeReady(probeContainerHTTPStatus(answer)),
                             !.probes = Append(@, ExecProbe("mcp container", answer))]
    /\ UNCHANGED restOfStatus

\* Lines 1123-1128: the same for noVNC.
EvaluateNoVNCContainer(answer) ==
    /\ ev.pc = "novncIn"
    /\ ev' = IF ev.status.NoVNCReady
             THEN [ev EXCEPT !.pc = "ret"]
             ELSE [ev EXCEPT !.pc = "ret",
                             !.status.NoVNCContainerCode = probeContainerHTTPStatus(answer),
                             !.status.NoVNCReady =
                                 NoVNCCodeReady(probeContainerHTTPStatus(answer)),
                             !.probes = Append(@, ExecProbe("novnc container", answer))]
    /\ UNCHANGED restOfStatus

\* Lines 1130-1134: the overall flag and, without it, the error text.
EvaluateReturn ==
    /\ ev.pc = "ret"
    /\ LET ok == ev.status.ContainerRunning /\ ev.status.MCPReady /\ ev.status.NoVNCReady
       IN  ev' = [ev EXCEPT !.pc = "done", !.status.OK = ok,
                            !.status.Error = IF ok THEN "" ELSE "endpoint checks failed"]
    /\ UNCHANGED restOfStatus

\* ----------------------------------------------- status commands, run whole

\* One run of a command from its first line to its exit: cmd and json are
\* the command and its --json flag; exit is the exit code; stdout is "",
\* "text" or "json" and stderr "" or "text", what was written to each;
\* ok is the result and err the error the operation returned; reason is
\* the payload's own account of a result that is not ok; jsonOk and
\* jsonError are the "ok" and "error" of the JSON printed; record is
\* what readHostState found ("found", "notexist", "parse"; "" when the
\* command reads no record); sigs lists the signals sent.
NoRun ==
    [cmd |-> "", json |-> FALSE, exit |-> 0, stdout |-> "", stderr |-> "", ok |-> FALSE,
     err |-> "", reason |-> "", jsonOk |-> FALSE, jsonError |-> "", record |-> "",
     sigs |-> <<>>]

\* fatal(err), lines 1557-1560: the error as text on standard error, exit 1.
Fatal(cmd, json, err) ==
    [NoRun EXCEPT !.cmd = cmd, !.json = json, !.exit = 1, !.stderr = "text", !.err = err]

\* cmdStatus, lines 351-390, on what evaluateStatus returned: its error is
\* fatal; the payload is printed on standard output as JSON or as text,
\* its Error with it; exit 1 unless the payload is ok.
cmdStatus(json, r) ==
    IF r.err # "" THEN Fatal("status", json, r.err)
    ELSE [NoRun EXCEPT !.cmd = "status", !.json = json,
                       !.exit = IF r.status.OK THEN 0 ELSE 1,
                       !.stdout = IF json THEN "json" ELSE "text",
                       !.ok = r.status.OK, !.reason = r.status.Error,
                       !.jsonOk = json /\ r.status.OK,
                       !.jsonError = IF json THEN r.status.Error ELSE ""]

\* `surf status [--json]` runs.
RunStatus(json, ps, mh, nh, mc, nc) ==
    /\ out.cmd = ""
    /\ ps # "running" => (mh = 0 /\ nh = 0)
    /\ MCPCodeReady(mh) \/ ps # "running" => mc = 0
    /\ NoVNCCodeReady(nh) \/ ps # "running" => nc = 0
    /\ out' = cmdStatus(json, evaluateStatus(ps, mh, nh, mc, nc))
    /\ UNCHANGED <<hostVars, restOfOut>>

\* cmdHostStatus, lines 614-662, on what readHostState returned, the
\* liveness of the record's pid and the code of the CDP probe.
cmdHostStatus(json, r, alive, cdpCode) ==
    IF r.err = "notexist"
    THEN IF json
         THEN [NoRun EXCEPT !.cmd = "host status", !.json = json, !.exit = 1,
                            !.stdout = "json", !.err = "not running",
                            !.jsonError = "not running", !.record = r.err]
         ELSE [Fatal("host status", json, "not running") EXCEPT !.record = r.err]
    ELSE IF r.err # "" THEN [Fatal("host status", json, r.err) EXCEPT !.record = r.err]
    ELSE [NoRun EXCEPT !.cmd = "host status", !.json = json,
                       !.exit = IF StatusOK(alive, cdpCode) THEN 0 ELSE 1,
                       !.stdout = IF json THEN "json" ELSE "text",
                       !.ok = StatusOK(alive, cdpCode),
                       !.jsonOk = json /\ StatusOK(alive, cdpCode),
                       !.record = "found"]

\* `surf host status [--json]` runs.
RunHostStatus(json) ==
    /\ out.cmd = ""
    /\ out' = cmdHostStatus(json, readHostState, processAlive(readHostState.state.PID),
                            probeHTTPStatus(readHostState.state.CDPPort))
    /\ UNCHANGED <<hostVars, restOfOut>>

\* Variant of RunHostStop: the signals are sent to the pid of the zero
\* record when no record could be read, and the run reports success.
RunHostStopUnchecked(json, obeys, gone) ==
    /\ out.cmd = ""
    /\ \E r \in {readHostState} :
          /\ procs' = Signal(r.state.PID, "SIGTERM", obeys)
          /\ hostFile' = NoFile
          /\ out' = [NoRun EXCEPT !.cmd = "host stop", !.json = json, !.exit = 0,
                                  !.stdout = IF json THEN "json" ELSE "text",
                                  !.ok = TRUE, !.jsonOk = json,
                                  !.record = IF r.err = "" THEN "found" ELSE r.err,
                                  !.sigs = <<"SIGTERM">>]
    /\ UNCHANGED <<logFile, inv, stopped, restOfOut>>

\* `surf host stop [--json]` runs, lines 580-612: a read error or a pid
\* that is not positive is fatal; else SIGTERM, the grace loop, SIGKILL
\* when the pid still answers, the record removed, success reported.
\* obeys: the process ends on SIGTERM within the grace window; gone: it
\* has left the process table when the run ends.
RunHostStop(json, obeys, gone) ==
    /\ out.cmd = ""
    /\ \E r \in {readHostState} :
          IF r.err # ""
          THEN /\ out' = [Fatal("host stop", json, r.err) EXCEPT !.record = r.err]
               /\ UNCHANGED <<hostFile, procs>>
          ELSE IF r.state.PID <= 0
          THEN /\ out' = [Fatal("host stop", json, "invalid pid") EXCEPT !.record = "found"]
               /\ UNCHANGED <<hostFile, procs>>
          ELSE /\ procs' = IF Exists(r.state.PID) /\ ~obeys
                           THEN Signal(r.state.PID, "SIGKILL", gone)
                           ELSE Signal(r.state.PID, "SIGTERM", obeys)
               /\ hostFile' = NoFile
               /\ out' = [NoRun EXCEPT !.cmd = "host stop", !.json = json, !.exit = 0,
                                       !.stdout = IF json THEN "json" ELSE "text",
                                       !.ok = TRUE, !.jsonOk = json, !.record = "found",
                                       !.sigs = IF Exists(r.state.PID) /\ ~obeys
                                                THEN <<"SIGTERM", "SIGKILL">>
                                                ELSE <<"SIGTERM">>]
    /\ UNCHANGED <<logFile, inv, stopped, restOfOut>>

\* `surf host logs` runs, lines 664-681: a read error of the record or of
\* the log is fatal; else the log is printed. The command has no --json.
RunHostLogs ==
    /\ out.cmd = ""
    /\ out' = IF readHostState.err # ""
              THEN [Fatal("host logs", FALSE, readHostState.err)
                       EXCEPT !.record = readHostState.err]
              ELSE IF ~logFile
              THEN [Fatal("host logs", FALSE, "notexist") EXCEPT !.record = "found"]
              ELSE [NoRun EXCEPT !.cmd = "host logs", !.exit = 0, !.stdout = "text",
                                 !.ok = TRUE, !.record = "found"]
    /\ UNCHANGED <<hostVars, restOfOut>>

\* The process of the run is gone.
RunExit ==
    /\ out.cmd # ""
    /\ out' = NoRun
    /\ UNCHANGED <<hostVars, restOfOut>>

\* ---------------------------------------------------- runtime configuration

\* The environment variables defaultConfig, defaultHostProfileName and
\* surfStateDir read; an unset variable reads as "".
EnvKeys ==
    {"SURF_PROFILE", "SURF_PROFILE_DIR", "SURF_HOST_PROFILE", "SURF_STATE_DIR",
     "SURF_IMAGE", "SURF_CONTAINER", "SURF_NETWORK", "SURF_HOST_BIND",
     "SURF_HOST_MCP_PORT", "SURF_HOST_NOVNC_PORT", "SURF_MCP_PORT", "SURF_NOVNC_PORT",
     "SURF_VNC_PASSWORD", "SURF_MCP_VERSION", "SURF_BROWSER_CHANNEL",
     "SURF_ALLOWED_HOSTS"}
IntEnvKeys ==
    {"SURF_HOST_MCP_PORT", "SURF_HOST_NOVNC_PORT", "SURF_MCP_PORT", "SURF_NOVNC_PORT"}
NoEnv == [k \in EnvKeys |-> ""]

\* Lines 1568-1573.
envOr(env, key, fallback) ==
    IF TrimSpace(env[key]) # "" THEN TrimSpace(env[key]) ELSE fallback

\* Lines 1575-1585.
envOrInt(env, key, fallback) ==
    IF TrimSpace(env[key]) = "" THEN fallback
    ELSE IF ~strconvAtoiOK(TrimSpace(env[key])) THEN fallback
    ELSE strconvAtoi(TrimSpace(env[key]))

\* Lines 1355-1360.
intOrFallback(value, fallback) == IF value <= 0 THEN fallback ELSE value

\* Lines 1362-1370, for two values.
firstNonEmpty(a, b) ==
    IF TrimSpace(a) # "" THEN TrimSpace(a)
    ELSE IF TrimSpace(b) # "" THEN TrimSpace(b)
    ELSE ""

\* The elements of a path between its slashes.
RECURSIVE SplitPath(_, _)
SplitPath(s, cur) ==
    IF Len(s) = 0 THEN <<cur>>
    ELSE IF CharAt(s, 1) = "/" THEN <<cur>> \o SplitPath(Slice(s, 2, Len(s)), "")
    ELSE SplitPath(Slice(s, 2, Len(s)), cur \o CharAt(s, 1))

RECURSIVE JoinParts(_)
JoinParts(parts) ==
    IF parts = <<>> THEN ""
    ELSE IF Len(parts) = 1 THEN parts[1]
    ELSE parts[1] \o "/" \o JoinParts(Tail(parts))

\* filepath.Clean's pass over the elements: empty ones and "." are
\* dropped; ".." takes back the element before it, is dropped at the root
\* and is kept at the start of a relative path.
RECURSIVE CleanParts(_, _, _)
CleanParts(parts, kept, rooted) ==
    IF parts = <<>> THEN kept
    ELSE IF parts[1] \in {"", "."} THEN CleanParts(Tail(parts), kept, rooted)
    ELSE IF parts[1] # ".." THEN CleanParts(Tail(parts), Append(kept, parts[1]), rooted)
    ELSE IF kept # <<>> /\ kept[Len(kept)] # ".."
    THEN CleanParts(Tail(parts), SubSeq(kept, 1, Len(kept) - 1), rooted)
    ELSE IF rooted THEN CleanParts(Tail(parts), kept, rooted)
    ELSE CleanParts(Tail(parts), Append(kept, ".."), rooted)

\* filepath.Clean on a Unix path.
filepathClean(path) ==
    IF path = "" THEN "."
    ELSE IF CharAt(path, 1) = "/"
    THEN "/" \o JoinParts(CleanParts(SplitPath(path, ""), <<>>, TRUE))
    ELSE IF CleanParts(SplitPath(path, ""), <<>>, FALSE) = <<>> THEN "."
    ELSE JoinParts(CleanParts(SplitPath(path, ""), <<>>, FALSE))

\* filepath.Join: the non-empty elements joined by "/" and cleaned.
filepathJoin(elems) ==
    IF SelectSeq(elems, LAMBDA e : e # "") = <<>> THEN ""
    ELSE filepathClean(JoinParts(SelectSeq(elems, LAMBDA e : e # "")))

\* os.UserHomeDir(): the home directory, or "" when it fails.
Homes == {"/home/u", ""}

\* Lines 1587-1603.
expandTilde(path, home) ==
    IF TrimSpace(path) = "" \/ CharAt(TrimSpace(path), 1) # "~" THEN TrimSpace(path)
    ELSE IF TrimSpace(home) = "" THEN TrimSpace(path)
    ELSE IF TrimSpace(path) = "~" THEN home
    ELSE IF Slice(TrimSpace(path), 1, 2) = "~/"
    THEN filepathJoin(<<home, Slice(TrimSpace(path), 3, Len(TrimSpace(path)))>>)
    ELSE TrimSpace(path)

\* Lines 1340-1353; settings is what loadSurfSettingsOrDefault returned.
surfStateDir(env, settings, home) ==
    IF TrimSpace(env["SURF_STATE_DIR"]) # ""
    THEN filepathClean(expandTilde(TrimSpace(env["SURF_STATE_DIR"]), home))
    ELSE IF TrimSpace(settings.StateDir) # ""
    THEN filepathClean(expandTilde(TrimSpace(settings.StateDir), home))
    ELSE IF TrimSpace(home) = "" THEN "/tmp/.surf"
    ELSE filepathJoin(<<home, ".surf">>)

\* Lines 1372-1390, on the state directory.
containerProfileDir(stateDir, profile) ==
    filepathJoin(<<stateDir, "browser", "profiles", "container", sanitizeProfileName(profile)>>)
hostProfileDir(stateDir, profile) ==
    filepathJoin(<<stateDir, "browser", "profiles", "host", sanitizeProfileName(profile)>>)
hostRuntimeDir(stateDir) == filepathJoin(<<stateDir, "browser", "host">>)
hostStatePath(stateDir, profile) ==
    filepathJoin(<<hostRuntimeDir(stateDir), sanitizeProfileName(profile) \o ".json">>)
hostLogPath(stateDir, profile) ==
    filepathJoin(<<hostRuntimeDir(stateDir), sanitizeProfileName(profile) \o ".log">>)

\* Lines 1312-1321.
defaultHostProfileName(env, settings) ==
    IF TrimSpace(env["SURF_HOST_PROFILE"]) # ""
    THEN sanitizeProfileName(TrimSpace(env["SURF_HOST_PROFILE"]))
    ELSE IF TrimSpace(settings.ProfileName) # ""
    THEN sanitizeProfileName(TrimSpace(settings.ProfileName))
    ELSE defaultProfileName

\* The profile of lines 171-174 and the password of lines 175-181.
ConfigProfile(env, settings) ==
    IF envOr(env, "SURF_PROFILE", TrimSpace(settings.ProfileName)) = ""
    THEN defaultProfileName
    ELSE envOr(env, "SURF_PROFILE", TrimSpace(settings.ProfileName))
ConfigPassword(env, settings) ==
    IF TrimSpace(env["SURF_VNC_PASSWORD"]) # "" THEN TrimSpace(env["SURF_VNC_PASSWORD"])
    ELSE IF TrimSpace(settings.VNCPassword) # "" THEN TrimSpace(settings.VNCPassword)
    ELSE "surf"

\* defaultConfig, lines 169-202; settings is what loadSurfSettingsOrDefault
\* returned, stateDir what surfStateDir returns.
defaultConfig(env, settings, stateDir) ==
    [ImageName |-> envOr(env, "SURF_IMAGE", firstNonEmpty(settings.ImageName, defaultImage)),
     ContainerName |->
         envOr(env, "SURF_CONTAINER", firstNonEmpty(settings.ContainerName, defaultContainer)),
     Network |-> envOr(env, "SURF_NETWORK", firstNonEmpty(settings.Network, defaultNetwork)),
     ProfileName |-> ConfigProfile(env, settings),
     ProfileDir |->
         IF envOr(env, "SURF_PROFILE_DIR", TrimSpace(settings.ProfileDir)) = ""
         THEN containerProfileDir(stateDir, ConfigProfile(env, settings))
         ELSE envOr(env, "SURF_PROFILE_DIR", TrimSpace(settings.ProfileDir)),
     HostBind |-> envOr(env, "SURF_HOST_BIND", firstNonEmpty(settings.HostBind, defaultHostBind)),
     HostMCPPort |->
         envOrInt(env, "SURF_HOST_MCP_PORT",
                  intOrFallback(settings.HostMCPPort, defaultHostMCPPort)),
     HostNoVNCPort |->
         envOrInt(env, "SURF_HOST_NOVNC_PORT",
                  intOrFallback(settings.HostNoVNCPort, defaultHostNoVNCPort)),
     MCPPort |-> envOrInt(env, "SURF_MCP_PORT", intOrFallback(settings.MCPPort, defaultMCPPort)),
     NoVNCPort |->
         envOrInt(env, "SURF_NOVNC_PORT", intOrFallback(settings.NoVNCPort, defaultNoVNCPort)),
     VNCPassword |-> ConfigPassword(env, settings),
     MCPVersion |->
         envOr(env, "SURF_MCP_VERSION", firstNonEmpty(settings.MCPVersion, defaultMCPVersion)),
     BrowserChannel |->
         envOr(env, "SURF_BROWSER_CHANNEL", firstNonEmpty(settings.BrowserChannel, "chromium")),
     AllowedHosts |->
         envOr(env, "SURF_ALLOWED_HOSTS", firstNonEmpty(settings.AllowedHosts, "*"))]

\* A string flag of the command line: whether it was passed, and its text.
NoFlag == [passed |-> FALSE, value |-> ""]
Flag(value) == [passed |-> TRUE, value |-> value]

\* Lines 1074-1079, after registerConfigFlags and fs.Parse put the --profile
\* and --profile-dir flags that were passed into cfg.
applyContainerProfileDefault(cfg, profile, profileDir, stateDir) ==
    [cfg EXCEPT
        !.ProfileName = sanitizeProfileName(IF profile.passed THEN profile.value ELSE @),
        !.ProfileDir =
            IF profileDir.passed THEN profileDir.value
            ELSE IF TrimSpace(@) = ""
            THEN containerProfileDir(stateDir,
                     sanitizeProfileName(IF profile.passed THEN profile.value
                                         ELSE cfg.ProfileName))
            ELSE @]

\* ------------------------------------------------------------ profile names

\* Raw names: every text of up to MaxLen characters of a lower-case and an
\* upper-case letter, a digit, the two symbols of the class, a blank and
\* two symbols outside the class.
Alphabet == {"a", "B", "7", "_", "-", " ", "!", "/"}
RECURSIVE Words(_)
Words(n) ==
    IF n = 0 THEN {""}
    ELSE LET shorter == Words(n - 1)
         IN  shorter \cup {w \o c : w \in shorter, c \in Alphabet}
RawInputs == Words(MaxLen)

\* No helper function was called yet.
NoFn == [op |-> ""]

\* The caller is done with the result.
FnReturn ==
    /\ fn.op # ""
    /\ fn' = NoFn
    /\ UNCHANGED restOfFn

\* sanitizeProfileName(raw) is called.
Sanitize(raw) ==
    /\ fn.op = ""
    /\ fn' = [op |-> "sanitizeProfileName", raw |-> raw, name |-> sanitizeProfileName(raw)]
    /\ UNCHANGED restOfFn

\* What the operator may give as a profile name, on the command line, in
\* the environment or in the settings file, and as a profile directory.
ProfileInputs == {"Work", "work", " play!"}
NameFlags == {NoFlag} \cup {Flag(raw) : raw \in ProfileInputs}
DirFlags == {NoFlag, Flag("/data/p")}
NameEnvs ==
    {[NoEnv EXCEPT !["SURF_PROFILE"] = raw, !["SURF_HOST_PROFILE"] = raw,
                   !["SURF_PROFILE_DIR"] = dir] :
        raw \in {"", "Work", "work"}, dir \in {"", "/data/e"}}
NameSettings ==
    {applySurfSettingsDefaults([defaultSurfSettings EXCEPT !.ProfileName = raw,
                                                           !.ProfileDir = dir]) :
        raw \in {"", "Work", "play"}, dir \in {"", "/data/s"}}

\* `surf host start|stop|status|logs`: the profile name of lines 485, 494
\* (588, 622, 671), the record and log paths it works on and, for start,
\* the profile directory of lines 495-498.
HostNames(profile, profileDir, env, settings) ==
    /\ fn.op = ""
    /\ \E pname \in {sanitizeProfileName(IF profile.passed THEN profile.value
                                         ELSE defaultHostProfileName(env, settings))},
          stateDir \in {surfStateDir(env, settings, "/home/u")} :
          fn' = [op |-> "host", profile |-> profile, profileDir |-> profileDir,
                 env |-> env, settings |-> settings, stateDir |-> stateDir,
                 name |-> pname,
                 record |-> hostStatePath(stateDir, pname),
                 log |-> hostLogPath(stateDir, pname),
                 dir |-> IF TrimSpace(profileDir.value) = ""
                         THEN hostProfileDir(stateDir, pname)
                         ELSE TrimSpace(profileDir.value)]
    /\ UNCHANGED restOfFn

\* `surf start` and `surf status`: cfg := defaultConfig(), the flags, then
\* applyContainerProfileDefault (lines 255-266, 352-361).
ContainerNames(profile, profileDir, env, settings) ==
    /\ fn.op = ""
    /\ \E stateDir \in {surfStateDir(env, settings, "/home/u")} :
          \E cfg \in {applyContainerProfileDefault(defaultConfig(env, settings, stateDir),
                                                   profile, profileDir, stateDir)} :
              fn' = [op |-> "container", profile |-> profile, profileDir |-> profileDir,
                     env |-> env, settings |-> settings, stateDir |-> stateDir,
                     name |-> cfg.ProfileName, record |-> "", log |-> "",
                     dir |-> cfg.ProfileDir]
    /\ UNCHANGED restOfFn

\* The mount point of the profile inside the container, lines 1306, 1309.
profileMountPoint == "/home/pwuser/.playwright-mcp-profile"
profileVolumePrefix == "volume:"

\* Variant of resolveProfileMount that tests the prefix on the text as
\* given, in the case it was written in.
resolveProfileMountExact(profileDir, home) ==
    IF Slice(profileDir, 1, Len(profileVolumePrefix)) = profileVolumePrefix
    THEN [mountArg |-> "surf-profile-"
                          \o sanitizeProfileName(TrimSpace(
                                 Slice(profileDir, Len(profileVolumePrefix) + 1,
                                       Len(profileDir))))
                          \o ":" \o profileMountPoint,
          hostPath |-> "", bindMount |-> FALSE]
    ELSE [mountArg |-> filepathClean(expandTilde(TrimSpace(profileDir), home))
                          \o ":" \o profileMountPoint,
          hostPath |-> filepathClean(expandTilde(TrimSpace(profileDir), home)),
          bindMount |-> TRUE]

\* resolveProfileMount, lines 1298-1310; sanitizeProfileName never returns
\* "", so the test of line 1303 never holds.
resolveProfileMount(profileDir, home) ==
    IF Slice(ToLower(TrimSpace(profileDir)), 1, Len(profileVolumePrefix)) = profileVolumePrefix
    THEN [mountArg |-> "surf-profile-"
                          \o sanitizeProfileName(TrimSpace(
                                 Slice(TrimSpace(profileDir), Len(profileVolumePrefix) + 1,
                                       Len(TrimSpace(profileDir)))))
                          \o ":" \o profileMountPoint,
          hostPath |-> "", bindMount |-> FALSE]
    ELSE [mountArg |-> filepathClean(expandTilde(TrimSpace(profileDir), home))
                          \o ":" \o profileMountPoint,
          hostPath |-> filepathClean(expandTilde(TrimSpace(profileDir), home)),
          bindMount |-> TRUE]

\* Profile directory texts: a start, which may be the reserved prefix in
\* some spelling, and a rest.
MountStarts == {"volume:", "VOLUME:", "Volume:", " volume:", "vol:", "", "/", "~/", "~", "./"}
MountRests == {"", "ls", "LS", " My Profile ", "state/profile", "a/../b/", "x//y", ".."}
MountInputs == {start \o rest : start \in MountStarts, rest \in MountRests}

\* resolveProfileMount(profileDir) is called.
ResolveMount(profileDir, home) ==
    /\ fn.op = ""
    /\ fn' = [op |-> "resolveProfileMount", profileDir |-> profileDir, home |-> home]
                 @@ resolveProfileMount(profileDir, home)
    /\ UNCHANGED restOfFn

\* Environments of a run: nothing set, or one variable set; a port
\* variable to a number, to zero or to a text that is no number.
EnvTexts(key) ==
    IF key \in IntEnvKeys THEN {"7000", "0", "abc"}
    ELSE IF key = "SURF_STATE_DIR" THEN {"/srv/state/", "~/st"}
    ELSE IF key = "SURF_PROFILE_DIR" THEN {"/data/e"}
    ELSE IF key \in {"SURF_PROFILE", "SURF_HOST_PROFILE"} THEN {"Work"}
    ELSE {"from-env"}
ConfigEnvs ==
    {NoEnv} \cup UNION {{[NoEnv EXCEPT ![key] = text] : text \in EnvTexts(key)} :
                         key \in EnvKeys}

\* Settings as loadSurfSettingsOrDefault returns them: the defaults
\* applied to what the file held.
LoadedSettings ==
    {applySurfSettingsDefaults(st) : st \in ConfigInputs}
        \cup {[defaultSurfSettings EXCEPT
                  !.ImageName = "test/surf:1", !.ContainerName = "surf-test",
                  !.Network = "test-net", !.ProfileName = "work",
                  !.ProfileDir = "/data/s", !.HostBind = "0.0.0.0",
                  !.HostMCPPort = 9999, !.HostNoVNCPort = 6090, !.MCPPort = 9900,
                  !.NoVNCPort = 6091, !.VNCPassword = "topsecret",
                  !.MCPVersion = "9.9.9", !.BrowserChannel = "chrome",
                  !.AllowedHosts = "example.com", !.StateDir = "/srv/custom-state"]}

\* defaultConfig() is called in a process with the environment env.
DefaultConfig(env, settings, home) ==
    /\ fn.op = ""
    /\ fn' = [op |-> "defaultConfig", env |-> env, settings |-> settings, home |-> home,
              cfg |-> defaultConfig(env, settings, surfStateDir(env, settings, home))]
    /\ UNCHANGED restOfFn

\* surfStateDir() is called.
StateDir(env, settings, home) ==
    /\ fn.op = ""
    /\ fn' = [op |-> "surfStateDir", env |-> env, settings |-> settings, home |-> home,
              stateDir |-> surfStateDir(env, settings, home)]
    /\ UNCHANGED restOfFn

\* ------------------------------------------------------------ specification

HostInit ==
    /\ hostFile = NoFile
    /\ logFile = FALSE
    /\ procs = [p \in PidSet |-> FreeProc]
    /\ inv = [i \in Invs |-> Idle]
    /\ stopped = FALSE

SaveInit ==
    /\ setFile = NoSettings
    /\ tmpFiles = [p \in Savers |-> NoSettings]
    /\ savers = [p \in Savers |-> SaverIdle]
    /\ lastRename = ""

ConfigInit ==
    /\ readable = TRUE
    /\ mem = defaultSurfSettings
    /\ call = NoCall
    /\ saved = NoSave

WaitInit == wait = WaitIdle

StatusInit == ev = EvalIdle

FnInit == fn = NoFn

OutInit == out = NoRun

Init ==
    /\ HostInit /\ SaveInit /\ ConfigInit /\ WaitInit
    /\ StatusInit /\ FnInit /\ OutInit

Next ==
    \/ \E i \in Invs : HostStart(i)
    \/ \E i \in Invs : HostStop(i)
    \/ \E i \in Invs : HostStatus(i)
    \/ \E i \in Invs : HostLogs(i)
    \/ \E i \in Invs : Exit(i)
    \/ \E i \in Invs : StartCheck(i)
    \/ \E i \in Invs : StartNoBinary(i)
    \/ \E i \in Invs : StartLaunchError(i)
    \/ \E i \in Invs : StartLaunch(i)
    \/ \E i \in Invs : StartOpenError(i)
    \/ \E i \in Invs : StartOpen(i)
    \/ \E i \in Invs : StartWrite(i)
    \/ \E i \in Invs : StopTerm(i)
    \/ \E i \in Invs : StopPoll(i)
    \/ \E i \in Invs : StopFinal(i)
    \/ \E i \in Invs : StopKill(i)
    \/ \E i \in Invs : StopRemove(i)
    \/ \E i \in Invs : StatusRead(i)
    \/ \E i \in Invs : StatusProbe(i)
    \/ \E i \in Invs : LogsRead(i)
    \/ \E p \in PidSet : ProcExit(p)
    \/ \E p \in PidSet : EndpointUp(p)
    \/ \E p \in PidSet : PidReuse(p)
    \/ \E p \in PidSet : OtherExit(p)

Spec == Init /\ [][Next]_vars

RaceNext ==
    \/ \E i \in Invs : RaceStart(i)
    \/ \E i \in Invs : RaceStatus(i)
    \/ \E i \in Invs : RaceLogs(i)
    \/ \E i \in Invs : Exit(i)
    \/ \E i \in Invs : StartCheck(i)
    \/ \E i \in Invs : StartNoBinary(i)
    \/ \E i \in Invs : StartLaunchError(i)
    \/ \E i \in Invs : StartLaunch(i)
    \/ \E i \in Invs : StartOpenError(i)
    \/ \E i \in Invs : StartOpen(i)
    \/ \E i \in Invs : StartWrite(i)
    \/ \E i \in Invs : StatusRead(i)
    \/ \E i \in Invs : StatusProbe(i)
    \/ \E i \in Invs : LogsRead(i)
    \/ \E p \in PidSet : ProcExit(p)
    \/ \E p \in PidSet : EndpointUp(p)

SpecRace == Init /\ [][RaceNext]_vars

SaveNext ==
    \/ \E p \in Savers : SaveBegin(p)
    \/ \E p \in Savers : LoadRead(p)
    \/ \E p \in Savers : SaveCreateTemp(p)
    \/ \E p \in Savers : SaveWrite(p)
    \/ \E p \in Savers : SaveFlush(p)
    \/ \E p \in Savers : SaveRename(p)
    \/ \E p \in Savers : SaveFail(p)
    \/ \E p \in Savers : SaverExit(p)

SpecSave == Init /\ [][SaveNext]_vars

ConfigNext ==
    \/ NewProcess
    \/ \E st \in ConfigInputs : TakeInput(st)
    \/ \E dirOK, saveOK \in BOOLEAN : LoadCall(dirOK, saveOK)
    \/ \E ok \in BOOLEAN : SaveCall(ok)
    \/ \E doc \in HandEdits : EditFile(doc)
    \/ RemoveFile
    \/ Chmod

SpecConfig == Init /\ [][ConfigNext]_vars

SetNext ==
    \/ NewProcess
    \/ \E dirOK, saveOK \in BOOLEAN : LoadCall(dirOK, saveOK)
    \/ \E ok \in BOOLEAN : SaveCall(ok)
    \/ \E key \in SetKeys, value \in SetValues : SetCall(key, value)
    \/ \E doc \in SetEdits : EditFile(doc)
    \/ RemoveFile

SpecSet == Init /\ [][SetNext]_vars

CliNext ==
    \/ \E cmd \in CliCommands, key \in CliKeys, value \in CliValues, io \in IOPlans :
          RunCli(cmd, key, value, io)
    \/ \E doc \in SetEdits : EditFile(doc)
    \/ RemoveFile
    \/ Chmod

SpecCli == Init /\ [][CliNext]_vars

WaitStep ==
    \/ \E ps \in DockerPs, mh, nh, mc, nc \in HTTPCodes : WaitEvaluate(ps, mh, nh, mc, nc)
    \/ WaitSleep
    \/ WaitExhausted

WaitNext ==
    \/ \E retries \in 0 .. MaxAttempts : WaitBegin(retries)
    \/ WaitStep

SpecWait == Init /\ [][WaitNext]_vars

\* Each call the loop makes returns: evaluateStatus's probes and
\* time.Sleep end, so the loop's next step is taken.
SpecWaitFair == SpecWait /\ WF_vars(WaitStep)

StatusNext ==
    \/ \E ps \in DockerPs : EvaluateBegin(ps)
    \/ \E answer \in HostAnswers : EvaluateMCPHost(answer)
    \/ \E answer \in HostAnswers : EvaluateNoVNCHost(answer)
    \/ \E answer \in ExecAnswers : EvaluateMCPContainer(answer)
    \/ \E answer \in ExecAnswers : EvaluateNoVNCContainer(answer)
    \/ EvaluateReturn

SpecStatus == Init /\ [][StatusNext]_vars

NamesNext ==
    \/ \E raw \in RawInputs : Sanitize(raw)
    \/ \E profile \in NameFlags, profileDir \in DirFlags, env \in NameEnvs,
          settings \in NameSettings : HostNames(profile, profileDir, env, settings)
    \/ \E profile \in NameFlags, profileDir \in DirFlags, env \in NameEnvs,
          settings \in NameSettings : ContainerNames(profile, profileDir, env, settings)
    \/ \E profileDir \in MountInputs, home \in Homes : ResolveMount(profileDir, home)
    \/ FnReturn

SpecNames == Init /\ [][NamesNext]_vars

EnvNext ==
    \/ \E env \in ConfigEnvs, settings \in LoadedSettings, home \in Homes :
          DefaultConfig(env, settings, home)
    \/ \E env \in ConfigEnvs, settings \in LoadedSettings, home \in Homes :
          StateDir(env, settings, home)
    \/ FnReturn

SpecEnv == Init /\ [][EnvNext]_vars

\* ------------------------------------------------------- launch arguments

\* Variant of hostLaunchArgs: DISPLAY is tested as it is, not trimmed.
hostLaunchArgsRawDisplay(goos, cdpPort, profileDir, isRoot, display) ==
    <<"--remote-debugging-port=" \o FormatInt(cdpPort), "--user-data-dir=" \o profileDir,
      "--no-first-run", "--no-default-browser-check">>
    \o (IF goos = "linux" /\ isRoot THEN <<"--no-sandbox", "--disable-setuid-sandbox">>
        ELSE <<>>)
    \o (IF display = "" THEN <<"--headless=new">> ELSE <<>>)
    \o <<"about:blank">>

\* hostLaunchArgs, lines 563-578; goos is runtime.GOOS of the build.
hostLaunchArgs(goos, cdpPort, profileDir, isRoot, display) ==
    <<"--remote-debugging-port=" \o FormatInt(cdpPort), "--user-data-dir=" \o profileDir,
      "--no-first-run", "--no-default-browser-check">>
    \o (IF goos = "linux" /\ isRoot THEN <<"--no-sandbox", "--disable-setuid-sandbox">>
        ELSE <<>>)
    \o (IF TrimSpace(display) = "" THEN <<"--headless=new">> ELSE <<>>)
    \o <<"about:blank">>

\* The systems surf is built for, and what --cdp-port, the profile
\* directory and DISPLAY may hold.
GoosSet == {"linux", "darwin"}
LaunchPorts == {0, 9222, defaultHostCDPPort}
LaunchDirs == {"", "/tmp/profile", "/srv/--no-sandbox", "about:blank"}
Displays == {"", " ", "\t\n", ":0", " :99 "}

\* cmdHostStart computes the arguments of the browser, line 527.
LaunchArgs(goos, cdpPort, profileDir, isRoot, display) ==
    /\ fn.op = ""
    /\ fn' = [op |-> "hostLaunchArgs", goos |-> goos, cdpPort |-> cdpPort,
              profileDir |-> profileDir, isRoot |-> isRoot, display |-> display,
              args |-> hostLaunchArgs(goos, cdpPort, profileDir, isRoot, display)]
    /\ UNCHANGED restOfFn

\* ------------------------------------------------------------------- proxy

\* strings.HasPrefix, strings.HasSuffix, strings.TrimPrefix.
HasPrefix(s, prefix) == Slice(s, 1, Len(prefix)) = prefix \/ prefix = ""
HasSuffix(s, suffix) == Slice(s, Len(s) - Len(suffix) + 1, Len(s)) = suffix \/ suffix = ""
TrimPrefix(s, prefix) ==
    IF HasPrefix(s, prefix) THEN Slice(s, Len(prefix) + 1, Len(s)) ELSE s

\* The director of httputil.NewSingleHostReverseProxy(upstreamURL), lines
\* 432-433, as far as the path goes: the path of the upstream URL and the
\* path of the request, joined by exactly one slash.
baseDirector(upstreamPath, path) ==
    IF HasSuffix(upstreamPath, "/") /\ HasPrefix(path, "/")
    THEN upstreamPath \o Slice(path, 2, Len(path))
    ELSE IF ~HasSuffix(upstreamPath, "/") /\ ~HasPrefix(path, "/")
    THEN upstreamPath \o "/" \o path
    ELSE upstreamPath \o path

\* proxy.Director, lines 434-446: req.URL.Path as the request leaves for
\* the upstream.
Director(upstreamPath, method, path) ==
    IF method # "GET" THEN baseDirector(upstreamPath, path)
    ELSE IF baseDirector(upstreamPath, path) = "/mcp" THEN "/sse"
    ELSE IF HasPrefix(baseDirector(upstreamPath, path), "/mcp/")
    THEN "/sse" \o TrimPrefix(baseDirector(upstreamPath, path), "/mcp")
    ELSE baseDirector(upstreamPath, path)

\* The paths of the --upstream URLs tried (the default URL has none), the
\* request methods and the request paths.
UpstreamPaths == {"", "/", "/base", "/base/", "/mcp"}
Methods == {"GET", "POST", "HEAD", "DELETE"}
RequestPaths ==
    {"/", "/mcp", "/mcp/", "/mcp/x", "/mcp/x/y", "/mcpx", "/mcpx/y", "/sse", "/x/mcp", "/MCP"}

\* The proxy started with an upstream URL of that path forwards a request.
ProxyRequest(upstreamPath, method, path) ==
    /\ fn.op = ""
    /\ fn' = [op |-> "Director", upstream |-> upstreamPath, method |-> method,
              path |-> path, forwarded |-> Director(upstreamPath, method, path)]
    /\ UNCHANGED restOfFn

\* Host browsers are started step by step, by one CLI process at a time,
\* and live or die as in Spec; the status commands run whole in between.
OutNext ==
    \/ \E json \in BOOLEAN, ps \in DockerPs, mh, nh, mc, nc \in HTTPCodes :
          RunStatus(json, ps, mh, nh, mc, nc)
    \/ \E json \in BOOLEAN : RunHostStatus(json)
    \/ \E json, obeys, gone \in BOOLEAN : RunHostStop(json, obeys, gone)
    \/ RunHostLogs
    \/ RunExit
    \/ HostStart(1)
    \/ Exit(1)
    \/ StartCheck(1)
    \/ StartNoBinary(1)
    \/ StartLaunchError(1)
    \/ StartLaunch(1)
    \/ StartOpenError(1)
    \/ StartOpen(1)
    \/ StartWrite(1)
    \/ \E p \in PidSet : ProcExit(p)
    \/ \E p \in PidSet : EndpointUp(p)
    \/ \E p \in PidSet : PidReuse(p)

SpecOut == Init /\ [][OutNext]_vars

ProxyNext ==
    \/ \E upstreamPath \in UpstreamPaths, method \in Methods, path \in RequestPaths :
          ProxyRequest(upstreamPath, method, path)
    \/ FnReturn

SpecProxy == Init /\ [][ProxyNext]_vars

LaunchNext ==
    \/ \E goos \in GoosSet, cdpPort \in LaunchPorts, profileDir \in LaunchDirs,
          isRoot \in BOOLEAN, display \in Displays :
          LaunchArgs(goos, cdpPort, profileDir, isRoot, display)
    \/ FnReturn

SpecLaunch == Init /\ [][LaunchNext]_vars

\* Process 1 runs commands that only read the settings; the others run
\* `config set`.
SetRaceNext ==
    \/ LoadRead(1)
    \/ RunEnd(1)
    \/ \E p \in Savers \ {1} : LoadRead(p)
    \/ \E p \in Savers \ {1} : SetLoad(p)
    \/ \E p \in Savers \ {1}, key \in RaceKeys, value \in RaceValues : SetAndSave(p, key, value)
    \/ \E p \in Savers \ {1} : RunEnd(p)
    \/ \E p \in Savers : SaveCreateTemp(p)
    \/ \E p \in Savers : SaveWrite(p)
    \/ \E p \in Savers : SaveFlush(p)
    \/ \E p \in Savers : SaveRename(p)
    \/ \E p \in Savers : SaveFail(p)

SpecSetRace == Init /\ [][SetRaceNext]_vars

\* A Set on the defaults or on a value the caller built, and whole runs
\* of `surf config set`, with an operator editing the file in between.
SetErrNext ==
    \/ NewProcess
    \/ \E st \in ConfigInputs : TakeInput(st)
    \/ \E key \in SetKeys, value \in SetValues : SetOnInput(key, value)
    \/ \E key \in CliKeys, value \in CliValues, io \in IOPlans :
          RunCli("config set", key, value, io)
    \/ \E doc \in SetEdits : EditFile(doc)
    \/ RemoveFile

SpecSetErr == Init /\ [][SetErrNext]_vars

\* ------------------------------------------------------------------ claims

\* Errors of Start that are the environment's: no launchable browser, or
\* the record could not be opened for writing.
LaunchErrors == {"binary not found", "launch error", "io error"}

\* C1: a Start that finds a record whose pid answers the liveness probe
\* fails with "already running"; a Start begun right after a completed Stop
\* is never rejected as already running and, unless the launch itself fails,
\* succeeds with its own new record persisted.
C1_StartAfterStop ==
    \A i \in Invs : Done(i, "start") =>
        /\ (inv[i].found /\ inv[i].pidLive) =>
              (inv[i].err = "already running" /\ inv[i].exit = 1)
        /\ inv[i].afterStop =>
              /\ inv[i].err # "already running"
              /\ inv[i].err \notin LaunchErrors =>
                    /\ inv[i].exit = 0
                    /\ inv[i].state.PID \in PidSet
                    /\ hostFile = FileOf(MarshalState(inv[i].state))

\* C1 witness: a Start that began right after a successful Stop has
\* succeeded and its record is on disk.
C1_Witness ==
    \E i \in Invs : Done(i, "start") /\ inv[i].afterStop /\ inv[i].exit = 0
                    /\ hostFile = FileOf(MarshalState(inv[i].state))

C3_StopStaleRecord ==
    \A i \in Invs : (Done(i, "stop") /\ inv[i].found /\ ~inv[i].pidLive) =>
        (inv[i].exit = 0 /\ inv[i].err = "" /\ inv[i].removed /\ hostFile = NoFile)

\* C3 witness: a Stop that found a stale record is done.
C3_Witness ==
    \E i \in Invs : Done(i, "stop") /\ inv[i].found /\ ~inv[i].pidLive
                    /\ inv[i].before.exists

\* Positions and flags of a stop in the order of lines 596-606.
C4_OrderInv ==
    \A i \in Invs : inv[i].cmd = "stop" =>
        /\ inv[i].polls <= StopPolls
        /\ inv[i].pc \in {"poll", "final", "kill", "remove"} =>
              (inv[i].term /\ ~inv[i].removed /\ hostFile = inv[i].before)
        /\ inv[i].pc \in {"read", "poll", "final", "kill"} => ~inv[i].kill
        /\ inv[i].pc = "kill" => inv[i].alive
        /\ inv[i].kill => (inv[i].term /\ inv[i].alive)
        /\ (inv[i].pc \in {"remove", "done"} /\ inv[i].found) => (inv[i].kill <=> inv[i].alive)
        /\ inv[i].removed => (inv[i].pc = "done" /\ inv[i].term)

\* What one step of a stop may do.
C4_OrderSteps ==
    \A i \in Invs : (inv[i].cmd = "stop" /\ inv'[i] # inv[i]) =>
        /\ (inv[i].pc = "poll" /\ inv'[i].pc = "final") =>
              (inv[i].polls = StopPolls \/ ~Exists(inv[i].state.PID))
        /\ (inv[i].pc = "poll" /\ inv'[i].pc = "poll") =>
              (inv'[i].polls = inv[i].polls + 1 /\ Exists(inv[i].state.PID))
        /\ inv[i].pc = "final" => (inv'[i].alive <=> Exists(inv[i].state.PID))
        /\ hostFile' # hostFile => inv[i].pc = "remove"
        /\ procs' # procs => inv[i].pc \in {"read", "kill"}

\* C4: Stop's order. SIGTERM is sent first; then at most StopPolls polls,
\* the loop being left early only when the pid stopped answering; SIGKILL
\* is sent only after the loop and only when the pid answered the probe
\* after the window, never when it did not; the record is removed only
\* after all of that.
C4_StopOrder == []C4_OrderInv /\ [][C4_OrderSteps]_vars

\* C4 witness: the process outlasted the whole window (all polls made) and
\* was then killed; the record is removed.
C4_Witness ==
    \E i \in Invs : Done(i, "stop") /\ inv[i].polls = StopPolls /\ inv[i].kill /\ inv[i].removed

\* C5: Status is ready iff the pid answered the probe and the CDP endpoint
\* returned 200; the reported alive is the probe's answer; exit 0 iff ready;
\* never ready while alive is false.
C5_StatusReady ==
    \A i \in Invs : Done(i, "status") =>
        /\ ~inv[i].found => (~inv[i].ok /\ inv[i].exit = 1)
        /\ inv[i].ok <=> (inv[i].alive /\ inv[i].cdp = 200)
        /\ inv[i].alive <=> inv[i].pidLive
        /\ (inv[i].exit = 0) <=> inv[i].ok
        /\ ~inv[i].alive => ~inv[i].ok

\* C5 witness: Status saw the process alive before its endpoint came up:
\* alive, cdp_status 0, not ready.
C5_Witness ==
    \E i \in Invs : Done(i, "status") /\ inv[i].found /\ inv[i].alive /\ inv[i].cdp = 0
                    /\ ~inv[i].ok /\ inv[i].exit = 1

\* What Status and Start do on a stale record (no process holds the
\* recorded pid when they probe).
C6_StaleInv ==
    /\ \A i \in Invs : (Done(i, "status") /\ inv[i].found /\ ~inv[i].pidLive) =>
          (~inv[i].alive /\ ~inv[i].ok /\ inv[i].exit = 1)
    /\ \A i \in Invs : (Done(i, "start") /\ inv[i].found /\ ~inv[i].pidLive) =>
          /\ inv[i].err # "already running"
          /\ inv[i].err \notin LaunchErrors =>
                /\ inv[i].exit = 0
                /\ Len(inv[i].before.data) > 0
                /\ hostFile = FileOf(MarshalState(inv[i].state))

\* C6: no background watcher: a step that is no CLI command's step (a
\* crash, the endpoint coming up, pid traffic) leaves the record file as it
\* is. On a stale record Status reports alive=false and not ready, and Start
\* is not rejected as already running; when its launch succeeds its record
\* replaces the stale one.
C6_LazyStaleRecord ==
    /\ []C6_StaleInv
    /\ [][inv' = inv => hostFile' = hostFile]_vars

\* C6 witness: a Start found a stale record and has replaced it.
C6_Witness ==
    \E i \in Invs : Done(i, "start") /\ inv[i].found /\ ~inv[i].pidLive /\ inv[i].exit = 0
                    /\ inv[i].before.exists
                    /\ hostFile = FileOf(MarshalState(inv[i].state))

\* C7: a Start that fails as already running, for want of a browser binary
\* or on a launch error has left the record file exactly as it found it; a
\* record is written only by a Start whose launch succeeded.
C7_NoRecordOnFailure ==
    \A i \in Invs : inv[i].cmd = "start" =>
        /\ (inv[i].pc = "done"
            /\ inv[i].err \in {"already running", "binary not found", "launch error"}) =>
              hostFile = inv[i].before
        /\ hostFile # inv[i].before =>
              (inv[i].pc \in {"write", "done"} /\ inv[i].state.PID \in PidSet)

\* C7 witness: a Start failed on a launch error while an earlier record
\* exists.
C7_Witness ==
    \E i \in Invs : Done(i, "start") /\ inv[i].err = "launch error" /\ hostFile.exists

\* C8 (the claim as stated): once no Start is between its open and its
\* write, the record file is one complete, well-formed record.
C8_RecordWellFormed ==
    (\A i \in Invs : inv[i].pc # "write") =>
        (hostFile.exists => UnmarshalOK(hostFile.data))

\* C9 (the claim as stated): no command ever reads an empty or partly
\* written record file.
C9_NoPartialRead ==
    \A i \in Invs : inv[i].err # "parse"

\* Every document a save of SaveInputs or of the defaults produces is a
\* complete one.
C10_Complete == \A d \in SavedDocuments : UnmarshalSettingsOK(d)

\* The settings path holds nothing or the complete document of the last
\* rename; no reader found a partial document.
C10_PathInv ==
    /\ ~setFile.exists => lastRename = ""
    /\ setFile.exists =>
          /\ setFile.data = lastRename
          /\ setFile.data \in SavedDocuments
          /\ C10_Complete
    /\ \A p \in Savers : savers[p].got # "partial" /\ savers[p].err # "parse"

\* C10: the content at the settings path is never a partly written
\* document: the path is absent (no rename yet) or holds one complete
\* document, the bytes of the last rename, which some single Save produced;
\* no reader finds a partial document; and the path's content changes only
\* by the rename of a Save whose temp file holds its complete document.
C10_AtomicSave ==
    /\ []C10_PathInv
    /\ [][setFile' # setFile =>
            \E p \in Savers : /\ savers[p].pc = "rename" /\ savers'[p].pc = "done"
                              /\ setFile' = FileOf(SaveData(p))]_vars

\* C10 witness: one Save's temp file is partly written while the settings
\* path holds the complete, different document of another Save's rename.
C10_Witness ==
    \E p \in Savers :
        /\ savers[p].pc = "flush"
        /\ tmpFiles[p].exists /\ Len(tmpFiles[p].data) < Len(SaveData(p))
        /\ setFile.exists /\ setFile.data # SaveData(p)
        /\ ReadDocument(setFile.data).ok
        /\ \E q \in Savers \ {p} : savers[q].pc = "done" /\ savers[q].err = ""
                                   /\ SaveData(q) = setFile.data

\* The settings path holds what the last successful save wrote (or what a
\* load made of it): no editor touched it since.
AfterSave == saved.valid /\ setFile.exists

\* C11 (the claim as stated): after any successful Save(s) the persisted
\* document's schema_version is the current constant, and so is the
\* schema_version a following Load returns.
C11_SchemaForced ==
    /\ (call.op = "save" /\ call.err = "") =>
          ReadDocument(setFile.data).st.SchemaVersion = surfSettingsSchemaVersion
    /\ (call.op = "load" /\ call.err = "" /\ AfterSave) =>
          mem.SchemaVersion = surfSettingsSchemaVersion

\* The fields of the paths, browser and tunnel tables.
RoundTripFields ==
    {TomlFields[f].field : f \in {g \in 1 .. Len(TomlFields) :
                                     TomlFields[g].table \in {"[paths]", "[browser]", "[tunnel]"}}}

\* C12 (the claim as stated): a Load that follows Save(s) returns every
\* paths, browser and tunnel field of Normalize(s) unchanged.
C12_RoundTrip ==
    (call.op = "load" /\ call.err = "" /\ call.found = "complete" /\ AfterSave) =>
        \A f \in RoundTripFields : mem[f] = applySurfSettingsDefaults(saved.arg)[f]

\* C13: a Load that finds the settings file unreadable or unparseable
\* returns the normalized defaults together with a non-nil error, and
\* leaves the file as it is.
C13_LoadCorrupt ==
    (call.op = "load" /\ call.found \in {"unreadable", "corrupt"}) =>
        /\ call.err # ""
        /\ mem = applySurfSettingsDefaults(defaultSurfSettings)

\* C13 witness: a Load has met a document cut short and returned the
\* parse error.
C13_Witness ==
    /\ call.op = "load" /\ call.found = "corrupt" /\ call.err = "parse error"
    /\ setFile.exists /\ setFile.data = ShortWrite(MarshalSettings(defaultSurfSettings))
    /\ mem = applySurfSettingsDefaults(defaultSurfSettings)

\* The value a document holds by itself: what toml.Unmarshal reads from it
\* into a zero surfSettings.
PortFields == {"HostMCPPort", "HostNoVNCPort", "MCPPort", "NoVNCPort"}
ZeroSettings ==
    [f \in DOMAIN defaultSurfSettings |->
        IF f \in PortFields \cup {"SchemaVersion"} THEN 0 ELSE ""]
Persisted == UnmarshalSettings(setFile.data, ZeroSettings)

\* Errors of the file system under a load or a save.
IOErrors == {"mkdir error", "io error"}

\* C15: a Load that finds no settings document writes the normalized
\* defaults to the settings path and returns them with no error: the file
\* then exists and holds them (with the save's stamp), and the returned
\* schema_version is the current constant. Only a failing MkdirAll or save
\* makes it return an error, and the path is then still absent.
C15_LoadAbsent ==
    (call.op = "load" /\ call.found = "absent") =>
        /\ mem = applySurfSettingsDefaults(defaultSurfSettings)
        /\ mem.SchemaVersion = surfSettingsSchemaVersion
        /\ call.err \in IOErrors \cup {""}
        /\ call.err = "" =>
              /\ setFile.exists
              /\ UnmarshalSettingsOK(setFile.data)
              /\ \E now \in Stamps : Persisted = [mem EXCEPT !.UpdatedAt = now]
        /\ call.err # "" => ~setFile.exists

\* C15 witness: a Load found nothing, returned the defaults with no error,
\* and the document is at the settings path.
C15_Witness ==
    /\ call.op = "load" /\ call.found = "absent" /\ call.err = ""
    /\ setFile.exists /\ Persisted.SchemaVersion = surfSettingsSchemaVersion
    /\ mem = defaultSurfSettings

\* The fields applySurfSettingsDefaults gives a default string.
DefaultedStrings ==
    {"Root", "SettingsFile", "StateDir", "ImageName", "ContainerName", "Network",
     "ProfileName", "HostBind", "VNCPassword", "MCPVersion", "BrowserChannel",
     "AllowedHosts", "TunnelContainerName", "Image"}

\* A settings value as the normalization is said to leave it.
Normalized(st) ==
    /\ st.SchemaVersion > 0
    /\ \A f \in PortFields : st[f] > 0
    /\ \A f \in DefaultedStrings : st[f] # ""
    /\ st.Mode \in {"quick", "token"}

\* C16 (the claim as stated): every value a Load returns, a Save persists
\* or a successful Set leaves is normalized: schema_version and the ports
\* positive, the defaulted strings non-empty, tunnel.mode exactly quick or
\* token.
C16_Normalized ==
    /\ call.op = "load" => Normalized(mem)
    /\ (call.op = "save" /\ call.err = "") => Normalized(Persisted)
    /\ (call.op = "set" /\ call.err = "") => Normalized(mem)

\* The key and the value of the last Set as setSurfConfigValue reads them
\* (lines 317-318), and the case of its switch they select.
SetKey == ToLower(TrimSpace(call.key))
SetArg == TrimSpace(call.value)
SetCase == CaseOfKey(SetKey)

\* C17 (the claim as stated, keys taken without case and outer blanks, mode
\* values without case): Set fails for a key outside the namespace, for a
\* non-integer value of a port key and for a mode other than quick or
\* token; for any other input it succeeds and the field holds the coerced
\* value.
C17_SetChecked ==
    call.op = "set" =>
        IF SetCase = 0 THEN call.err # ""
        ELSE IF ConfigKeys[SetCase].kind = "int"
        THEN IF ~strconvAtoiOK(SetArg) THEN call.err # ""
             ELSE call.err = "" /\ mem[ConfigKeys[SetCase].field] = strconvAtoi(SetArg)
        ELSE IF ConfigKeys[SetCase].kind = "mode"
        THEN IF ToLower(SetArg) \notin {"quick", "token"} THEN call.err # ""
             ELSE call.err = "" /\ mem.Mode = ToLower(SetArg)
        ELSE IF ConfigKeys[SetCase].kind = "profile"
        THEN call.err = "" /\ (SetArg # "" => mem.ProfileName = sanitizeProfileName(SetArg))
        ELSE call.err = "" /\ (SetArg # "" => mem[ConfigKeys[SetCase].field] = SetArg)

\* Whether the settings value st holds, in the field of the last Set,
\* the value that was supplied: trimmed, and parsed for a port key.
HoldsSupplied(st) ==
    IF ConfigKeys[SetCase].kind = "int"
    THEN strconvAtoiOK(SetArg) /\ st[ConfigKeys[SetCase].field] = strconvAtoi(SetArg)
    ELSE st[ConfigKeys[SetCase].field] = SetArg

\* C18 (the claim as stated): when Set returns success the field holds the
\* supplied value, and the Save that follows persists that same value.
C18_NoSilentCoercion ==
    /\ (call.op = "set" /\ call.err = "") => (SetCase # 0 /\ HoldsSupplied(mem))
    /\ (call.op = "save" /\ call.err = "" /\ call.key # "") =>
          (SetCase # 0 /\ HoldsSupplied(Persisted))

\* The errors loadSurfSettings returns for a settings file it cannot use.
ConfigErrors == {"read error", "parse error"}

\* C14 (the claim as stated): no run of the CLI that finds the settings
\* file unreadable or corrupt dies of that: the load's error is not what
\* the run exits on, and a config command that has nothing else to fail on
\* exits 0.
C14_ConfigErrorNotFatal ==
    (call.op = "cli" /\ call.found \in {"unreadable", "corrupt"}) =>
        /\ call.err \notin ConfigErrors
        /\ call.key \in {"config show", "config path"} => call.exit = 0

\* The evaluations of a waitForStatus call: never more than retries; none
\* after an ok one, which ends the call at once and is returned with no
\* error, so that k not-ok answers and then an ok one make k + 1 calls.
C19_Bounded ==
    /\ wait.calls <= wait.retries
    /\ Len(wait.seen) <= wait.calls
    /\ \A j \in 1 .. Len(wait.seen) :
          wait.seen[j].OK =>
              /\ j = Len(wait.seen)
              /\ wait.pc = "done" /\ wait.err = ""
              /\ wait.ret.OK /\ wait.ret = wait.last
              /\ wait.calls = Cardinality({k \in 1 .. Len(wait.seen) : ~wait.seen[k].OK}) + 1
    /\ (wait.pc = "done" /\ wait.ret.OK) =>
          (wait.seen # <<>> /\ wait.seen[Len(wait.seen)].OK)

\* C19: waitForStatus calls evaluateStatus at most retries times and
\* always returns; it stops at the first ok evaluation and returns it with
\* no error; after k not-ok answers and then an ok one, k < retries, it
\* has made exactly k + 1 evaluations.
C19_WaitConverges ==
    /\ []C19_Bounded
    /\ (wait.pc = "loop") ~> (wait.pc = "done")

\* C19 witness: retries = 3, two not-ok answers, then ok on the third
\* evaluation.
C19_Witness ==
    /\ wait.pc = "done" /\ wait.retries = 3 /\ wait.calls = 3 /\ wait.err = ""
    /\ Len(wait.seen) = 3
    /\ ~wait.seen[1].OK /\ ~wait.seen[2].OK /\ wait.seen[3].OK
    /\ wait.ret.OK

\* A call that used up its budget: every one of its retries evaluations
\* returned a payload that was not ok.
Exhausted ==
    /\ wait.pc = "done"
    /\ wait.calls = wait.retries /\ Len(wait.seen) = wait.retries
    /\ \A j \in 1 .. Len(wait.seen) : ~wait.seen[j].OK

\* C20: a call that used up its budget returns an error whose text is the
\* reason of the final evaluation, or the timeout text when there is none:
\* so with retries = 0, where evaluateStatus is never called.
C20_LastReason ==
    Exhausted =>
        /\ wait.err # ""
        /\ wait.ret.Error = wait.err /\ ~wait.ret.OK
        /\ wait.err = IF wait.seen = <<>> THEN TimeoutError
                      ELSE IF TrimSpace(wait.seen[Len(wait.seen)].Error) = ""
                      THEN TimeoutError
                      ELSE wait.seen[Len(wait.seen)].Error
        /\ wait.retries = 0 => (wait.calls = 0 /\ wait.err = TimeoutError)

\* C20 witness: the budget is used up after two different reasons, and
\* the error carries the later one.
C20_Witness ==
    /\ Exhausted /\ wait.retries = 2
    /\ wait.seen[1].Error = "container not running"
    /\ wait.seen[2].Error = "endpoint checks failed"
    /\ wait.err = "endpoint checks failed"

\* C21: when docker ps does not list the container, evaluateStatus returns
\* at once, not ok, with the reason "container not running" and no error;
\* no probe is made, on the host or inside the container, so the four
\* codes are 0 and both readiness flags are false.
C21_NotRunningNoProbe ==
    ev.ps = "none" =>
        /\ ev.pc = "done" /\ ev.err = ""
        /\ ~ev.status.OK /\ ~ev.status.ContainerRunning
        /\ ev.status.Error = "container not running"
        /\ ev.probes = <<>>
        /\ ev.status.MCPHostCode = 0 /\ ev.status.NoVNCHostCode = 0
        /\ ev.status.MCPContainerCode = 0 /\ ev.status.NoVNCContainerCode = 0
        /\ ~ev.status.MCPReady /\ ~ev.status.NoVNCReady

\* C21 witness: a call that found the container not running has returned.
C21_Witness ==
    ev.pc = "done" /\ ev.ps = "none" /\ ev.status.Error = "container not running"

\* The probes of a call made inside the container for one endpoint.
ProbesNamed(name) == {k \in 1 .. Len(ev.probes) : ev.probes[k].name = name}

\* C22: the payload evaluateStatus returns is ok exactly when the
\* container is running, the MCP endpoint is ready by its host code or by
\* its in-container code, and the noVNC endpoint likewise; an endpoint is
\* probed inside the container only when its host code was not a ready
\* one; a payload that is not ok for a running container carries "endpoint
\* checks failed".
C22_OverallReady ==
    /\ ev.pc = "done" =>
          /\ ev.status.OK <=>
                /\ ev.ps = "running" /\ ev.status.ContainerRunning
                /\ MCPCodeReady(ev.status.MCPHostCode)
                      \/ MCPCodeReady(ev.status.MCPContainerCode)
                /\ NoVNCCodeReady(ev.status.NoVNCHostCode)
                      \/ NoVNCCodeReady(ev.status.NoVNCContainerCode)
          /\ (ev.ps = "running" /\ ~ev.status.OK) =>
                ev.status.Error = "endpoint checks failed"
          /\ ev.status.OK => ev.status.Error = ""
    /\ ProbesNamed("mcp container") # {} =>
          /\ ProbesNamed("mcp host") # {}
          /\ ~MCPCodeReady(ev.status.MCPHostCode)
    /\ ProbesNamed("novnc container") # {} =>
          /\ ProbesNamed("novnc host") # {}
          /\ ~NoVNCCodeReady(ev.status.NoVNCHostCode)
    /\ (ev.pc \in {"ret", "done"} /\ ev.ps = "running") =>
          /\ ~MCPCodeReady(ev.status.MCPHostCode) => ProbesNamed("mcp container") # {}
          /\ ~NoVNCCodeReady(ev.status.NoVNCHostCode) => ProbesNamed("novnc container") # {}

\* C22 witness: a payload that is ok with the MCP endpoint ready only
\* inside the container and noVNC ready on the host, after three probes.
C22_Witness ==
    /\ ev.pc = "done" /\ ev.status.OK
    /\ ev.status.MCPHostCode = 0 /\ ev.status.MCPContainerCode = 400
    /\ ev.status.NoVNCHostCode = 302
    /\ Len(ev.probes) = 3

\* The code a made probe reported, as the payload holds it.
CodeOf(name) ==
    CASE name = "mcp host" -> ev.status.MCPHostCode
      [] name = "novnc host" -> ev.status.NoVNCHostCode
      [] name = "mcp container" -> ev.status.MCPContainerCode
      [] name = "novnc container" -> ev.status.NoVNCContainerCode

\* Texts of a docker exec that are no number.
Unparsable == {"", "20x"}

\* C23: on the host path and on the in-container path alike, the MCP
\* endpoint is ready exactly for the codes 200 and 400 and the noVNC
\* endpoint exactly for the codes from 200 up to 399; a probe that failed
\* in transport, or whose in-container text is no number, reports code 0,
\* which is not ready and is no error of the call; 500 is not ready.
C23_ReadyByCode ==
    /\ ev.pc = "novnc" => (ev.status.MCPReady <=> ev.status.MCPHostCode \in {200, 400})
    /\ ev.pc = "mcpIn" =>
          (ev.status.NoVNCReady <=>
              (ev.status.NoVNCHostCode >= 200 /\ ev.status.NoVNCHostCode < 400))
    /\ (ev.pc = "novncIn" /\ ProbesNamed("mcp container") # {}) =>
          (ev.status.MCPReady <=> ev.status.MCPContainerCode \in {200, 400})
    /\ (ev.pc = "ret" /\ ProbesNamed("novnc container") # {}) =>
          (ev.status.NoVNCReady <=>
              (ev.status.NoVNCContainerCode >= 200 /\ ev.status.NoVNCContainerCode < 400))
    /\ \A k \in 1 .. Len(ev.probes) :
          /\ \/ ev.probes[k].failed
             \/ /\ ev.probes[k].name \in {"mcp container", "novnc container"}
                /\ ev.probes[k].text \in Unparsable
             => (CodeOf(ev.probes[k].name) = 0 /\ ev.err = "")
          /\ (~ev.probes[k].failed /\ ev.probes[k].code # 0) =>
                CodeOf(ev.probes[k].name) = ev.probes[k].code
          /\ ev.probes[k].text \in {"199", "200", "302", "399", "400", "404", "500"} =>
                CodeOf(ev.probes[k].name) \in StatusCodes
    /\ ev.pc \in {"ret", "done"} =>
          /\ (ev.status.MCPHostCode \in {0, 500} /\ ev.status.MCPContainerCode \in {0, 500})
                => ~ev.status.MCPReady
          /\ (ev.status.NoVNCHostCode \in {0, 500}
                 /\ ev.status.NoVNCContainerCode \in {0, 500}) => ~ev.status.NoVNCReady

\* C23 witness: the host probe of MCP failed in transport and the one
\* inside the container printed 400; noVNC answered 500 on the host and
\* 399 inside the container: both endpoints are ready.
C23_Witness ==
    /\ ev.pc = "ret" /\ Len(ev.probes) = 4
    /\ ev.probes[1].failed /\ ev.status.MCPHostCode = 0
    /\ ev.probes[3].text = "400" /\ ev.status.MCPContainerCode = 400
    /\ ev.status.NoVNCHostCode = 500
    /\ ev.probes[4].text = "399" /\ ev.status.NoVNCContainerCode = 399
    /\ ev.status.MCPReady /\ ev.status.NoVNCReady

\* The characters of the class [a-z0-9_-].
NameChars == "abcdefghijklmnopqrstuvwxyz0123456789_-"

\* The text matches ^[a-z0-9_-]+$.
MatchesNameClass(s) ==
    Len(s) > 0 /\ \A k \in 1 .. Len(s) : IndexOf(CharAt(s, k), NameChars) > 0

\* The text has no letter, digit or underscore: nothing of it is left once
\* the runs outside the class are replaced and the dashes trimmed.
NothingLeft(s) ==
    \A k \in 1 .. Len(s) :
        IndexOf(CharAt(s, k), "abcdefghijklmnopqrstuvwxyzABCDEFGHIJKLMNOPQRSTUVWXYZ0123456789_") = 0

\* C24: for every raw name, sanitizeProfileName returns a non-empty text
\* matching ^[a-z0-9_-]+$ on which a second call changes nothing; a raw
\* name of which nothing is left gives "default".
C24_SanitizeIdempotent ==
    fn.op = "sanitizeProfileName" =>
        /\ fn.name # ""
        /\ MatchesNameClass(fn.name)
        /\ sanitizeProfileName(fn.name) = fn.name
        /\ NothingLeft(fn.raw) => fn.name = "default"

\* C24 witness: a raw name of mixed case with a run of symbols inside and a
\* blank at its end.
C24_Witness ==
    fn.op = "sanitizeProfileName" /\ fn.raw = "B! " /\ fn.name = "b"

\* The raw profile name of a run: the --profile flag when passed, else the
\* environment variable of the command family, else the settings value,
\* else the built-in name.
RawProfile ==
    IF fn.profile.passed THEN fn.profile.value
    ELSE IF TrimSpace(fn.env[IF fn.op = "host" THEN "SURF_HOST_PROFILE"
                             ELSE "SURF_PROFILE"]) # ""
    THEN fn.env[IF fn.op = "host" THEN "SURF_HOST_PROFILE" ELSE "SURF_PROFILE"]
    ELSE IF TrimSpace(fn.settings.ProfileName) # "" THEN fn.settings.ProfileName
    ELSE "default"

\* The operator named the profile directory itself.
ExplicitDir ==
    \/ fn.profileDir.passed
    \/ fn.op = "container" /\ TrimSpace(fn.env["SURF_PROFILE_DIR"]) # ""
    \/ fn.op = "container" /\ TrimSpace(fn.settings.ProfileDir) # ""

\* C25: whatever the source of the raw profile name, the profile a command
\* works on is its sanitized form, and the record path, the log path and,
\* unless the operator named a directory, the host or container profile
\* directory are the fixed places under the state directory that carry the
\* sanitized name; so raw names with one sanitized form address the same
\* record, log and directory.
C25_PathsFromSanitized ==
    fn.op \in {"host", "container"} =>
        /\ fn.name = sanitizeProfileName(RawProfile)
        /\ fn.op = "host" =>
              /\ fn.record = fn.stateDir \o "/browser/host/"
                                 \o sanitizeProfileName(RawProfile) \o ".json"
              /\ fn.log = fn.stateDir \o "/browser/host/"
                              \o sanitizeProfileName(RawProfile) \o ".log"
        /\ ~ExplicitDir =>
              fn.dir = fn.stateDir \o "/browser/profiles/" \o fn.op \o "/"
                           \o sanitizeProfileName(RawProfile)

\* The text after the first n characters.
After(s, n) == Slice(s, n + 1, Len(s))

\* The descriptor of a named volume, and of a bind mount of a host path.
IsVolumeOf(suffix) ==
    /\ fn.mountArg = "surf-profile-" \o sanitizeProfileName(suffix)
                         \o ":/home/pwuser/.playwright-mcp-profile"
    /\ fn.hostPath = "" /\ ~fn.bindMount
    /\ TrimSpace(suffix) = "" => fn.mountArg = "surf-profile-default"
                                     \o ":/home/pwuser/.playwright-mcp-profile"
IsBindOf(path) ==
    /\ fn.bindMount
    /\ fn.hostPath = filepathClean(expandTilde(path, fn.home))
    /\ fn.mountArg = fn.hostPath \o ":/home/pwuser/.playwright-mcp-profile"

\* C26 as stated: a profile directory that begins with "volume:" resolves
\* to the named volume surf-profile-<sanitized suffix>, with no host path
\* and no bind mount; any other resolves to a bind mount of the
\* tilde-expanded, cleaned path.
C26_MountByPrefix ==
    fn.op = "resolveProfileMount" =>
        IF Slice(fn.profileDir, 1, 7) = "volume:"
        THEN IsVolumeOf(After(fn.profileDir, 7))
        ELSE IsBindOf(fn.profileDir)

\* C26: a profile directory that, once trimmed, begins with "volume:" in
\* any letter case resolves to the named volume surf-profile-<sanitized
\* suffix> ("default" for an empty suffix), with no host path and no bind
\* mount; any other resolves to a bind mount of the tilde-expanded,
\* cleaned path; both descriptors end in the same mount point.
C26_MountByTrimmedPrefix ==
    fn.op = "resolveProfileMount" =>
        IF ToLower(Slice(TrimSpace(fn.profileDir), 1, 7)) = "volume:"
        THEN IsVolumeOf(After(TrimSpace(fn.profileDir), 7))
        ELSE IsBindOf(fn.profileDir)

\* C26 witness: "VOLUME: My Profile " names the volume
\* surf-profile-my-profile.
C26_Witness ==
    /\ fn.op = "resolveProfileMount" /\ fn.profileDir = "VOLUME: My Profile "
    /\ fn.mountArg = "surf-profile-my-profile:/home/pwuser/.playwright-mcp-profile"
    /\ ~fn.bindMount

\* The fields of the runtime configuration that are texts, each with its
\* environment variable and its built-in default; those that are ports.
TextFields ==
    { [field |-> "ImageName", key |-> "SURF_IMAGE", default |-> "ghcr.io/aureuma/surf-browser:local"],
      [field |-> "ContainerName", key |-> "SURF_CONTAINER", default |-> "surf-playwright-mcp-headed"],
      [field |-> "Network", key |-> "SURF_NETWORK", default |-> "si"],
      [field |-> "ProfileName", key |-> "SURF_PROFILE", default |-> "default"],
      [field |-> "HostBind", key |-> "SURF_HOST_BIND", default |-> "127.0.0.1"],
      [field |-> "VNCPassword", key |-> "SURF_VNC_PASSWORD", default |-> "surf"],
      [field |-> "MCPVersion", key |-> "SURF_MCP_VERSION", default |-> "0.0.64"],
      [field |-> "BrowserChannel", key |-> "SURF_BROWSER_CHANNEL", default |-> "chromium"],
      [field |-> "AllowedHosts", key |-> "SURF_ALLOWED_HOSTS", default |-> "*"] }
PortConfigFields ==
    { [field |-> "HostMCPPort", key |-> "SURF_HOST_MCP_PORT", default |-> 8932],
      [field |-> "HostNoVNCPort", key |-> "SURF_HOST_NOVNC_PORT", default |-> 6080],
      [field |-> "MCPPort", key |-> "SURF_MCP_PORT", default |-> 8931],
      [field |-> "NoVNCPort", key |-> "SURF_NOVNC_PORT", default |-> 6080] }

\* A text field follows the precedence: the variable when set, else the
\* settings value, else the default.
TextByPrecedence(f) ==
    IF fn.env[f.key] # "" THEN fn.cfg[f.field] = fn.env[f.key]
    ELSE IF fn.settings[f.field] # "" THEN fn.cfg[f.field] = fn.settings[f.field]
    ELSE fn.cfg[f.field] = f.default

\* The same for a port: the variable's text is the port's number.
PortByPrecedence(f) ==
    IF fn.env[f.key] # "" THEN DecimalText(fn.cfg[f.field]) = fn.env[f.key]
    ELSE IF fn.settings[f.field] > 0 THEN fn.cfg[f.field] = fn.settings[f.field]
    ELSE fn.cfg[f.field] = f.default

\* The profile directory: the variable, else the settings value, else the
\* container directory of the profile under the state directory.
DirByPrecedence ==
    IF fn.env["SURF_PROFILE_DIR"] # "" THEN fn.cfg.ProfileDir = fn.env["SURF_PROFILE_DIR"]
    ELSE IF fn.settings.ProfileDir # "" THEN fn.cfg.ProfileDir = fn.settings.ProfileDir
    ELSE fn.cfg.ProfileDir =
             surfStateDir(fn.env, fn.settings, fn.home) \o "/browser/profiles/container/"
                 \o sanitizeProfileName(fn.cfg.ProfileName)

\* The state directory: the variable, else the settings value, else the
\* home default; a path is tilde-expanded and cleaned.
StateDirByPrecedence ==
    IF fn.env["SURF_STATE_DIR"] # ""
    THEN fn.stateDir = filepathClean(expandTilde(fn.env["SURF_STATE_DIR"], fn.home))
    ELSE IF fn.settings.StateDir # ""
    THEN fn.stateDir = filepathClean(expandTilde(fn.settings.StateDir, fn.home))
    ELSE fn.stateDir = IF fn.home = "" THEN "/tmp/.surf" ELSE fn.home \o "/.surf"

\* C27: every field of the runtime configuration is the value of its
\* SURF_* variable when that is not empty, else the value of the persisted
\* settings, else the built-in default; with no variable set every field
\* is the settings value; the state directory follows the same order.
C27_Precedence ==
    /\ fn.op = "defaultConfig" =>
          /\ \A f \in TextFields : TextByPrecedence(f)
          /\ \A f \in PortConfigFields : PortByPrecedence(f)
          /\ DirByPrecedence
    /\ fn.op = "surfStateDir" => StateDirByPrecedence


\* C28: a status command (container status, host status) exits 0 only
\* when its result is ok and exits 1 otherwise, whether the endpoints are
\* not ready, the container or the browser is not running, or the record
\* is missing; host stop, host status and host logs that find no record
\* exit 1 and have sent no signal, leaving every process as it was.
StatusCommands == {"status", "host status"}
RecordCommands == {"host stop", "host status", "host logs"}
C28_ExitCodes ==
    /\ [](/\ out.cmd \in StatusCommands => out.exit = IF out.ok THEN 0 ELSE 1
          /\ out.cmd \in RecordCommands /\ out.record = "notexist"
                => out.exit = 1 /\ out.sigs = <<>>)
    /\ [][out.cmd = "" /\ out'.cmd \in RecordCommands /\ out'.record = "notexist"
             => procs' = procs]_vars

\* A host stop found no record while a browser was running: exit 1, no
\* signal.
C28_Witness ==
    /\ out.cmd = "host stop"
    /\ out.record = "notexist"
    /\ \E p \in PidSet : procs[p].kind = "browser"

\* C29: a run asked for JSON reports every error of its operation in the
\* "error" field of a JSON payload, exits non-zero and writes nothing to
\* standard error; a run not asked for JSON reports it as text on
\* standard error, exits non-zero and prints no JSON.
C29_RenderedByMode ==
    /\ out.cmd # "" /\ out.json => out.stderr = ""
    /\ out.cmd # "" /\ ~out.json => out.stdout # "json"
    /\ out.cmd # "" /\ out.err # "" =>
          /\ out.exit # 0
          /\ IF out.json THEN out.stdout = "json" /\ out.jsonError # ""
                         ELSE out.stderr = "text"


\* C30: the proxy rewrites the path of GET requests only: GET /mcp goes
\* to the upstream as /sse and GET /mcp/<rest> as /sse/<rest>; a request
\* of any other method, and a GET of any other path (/mcpx), goes to the
\* upstream with its own path.
RewrittenPath(method, path) ==
    IF method = "GET" /\ path = "/mcp" THEN "/sse"
    ELSE IF method = "GET" /\ Slice(path, 1, 5) = "/mcp/" THEN "/sse/" \o After(path, 5)
    ELSE path
C30_GetRewriteOnly ==
    fn.op = "Director" =>
        fn.forwarded = baseDirector(fn.upstream, RewrittenPath(fn.method, fn.path))

\* C31: the launch arguments of a host browser always hold
\* --remote-debugging-port=<cdpPort> and --user-data-dir=<profileDir> and
\* end with about:blank; --no-sandbox and --disable-setuid-sandbox are
\* among them exactly when the launch is as root on Linux, and
\* --headless=new exactly when DISPLAY, trimmed, is empty.
Holds(args, arg) == \E k \in 1 .. Len(args) : args[k] = arg
PortText(n) == IF n = 0 THEN "0" ELSE IF n = 9222 THEN "9222" ELSE "18800"
OnlySpaces(s) == \A k \in 1 .. Len(s) : CharAt(s, k) \in {" ", "\t", "\n", "\r"}
C31_LaunchArgs ==
    fn.op = "hostLaunchArgs" =>
        /\ Holds(fn.args, "--remote-debugging-port=" \o PortText(fn.cdpPort))
        /\ Holds(fn.args, "--user-data-dir=" \o fn.profileDir)
        /\ fn.args[Len(fn.args)] = "about:blank"
        /\ Holds(fn.args, "--no-sandbox") <=> (fn.isRoot /\ fn.goos = "linux")
        /\ Holds(fn.args, "--disable-setuid-sandbox") <=> (fn.isRoot /\ fn.goos = "linux")
        /\ Holds(fn.args, "--headless=new") <=> OnlySpaces(fn.display)

\* Arguments were computed for root on Linux under a DISPLAY of blanks.
C31_Witness ==
    /\ fn.op = "hostLaunchArgs"
    /\ fn.isRoot /\ fn.goos = "linux" /\ fn.display = " "
    /\ Len(fn.args) = 8

\* C32: a command that only reads the settings, run beside a `config
\* set`, never loses the value set: once both have finished, the
\* persisted document holds that value.
SetDone(p) ==
    savers[p].cmd = "set save" /\ savers[p].pc = "done" /\ savers[p].err = ""
ReaderAtRest == savers[1].pc \in {"idle", "done"}
C32_SetSurvivesReader ==
    \A p \in Savers \ {1} :
        SetDone(p) /\ ReaderAtRest =>
            /\ setFile.exists
            /\ ReadDocument(setFile.data).ok
            /\ ReadDocument(setFile.data).st[savers[p].field] = savers[p].value


\* C33: with Start, Stop and Status typed one after the other, whenever
\* no command is running at most one browser launched by Start is alive,
\* and a browser that is alive is the process the record names; also
\* after a Start that failed once the browser was launched.
LiveBrowsers == {p \in PidSet : procs[p].kind = "browser"}
Recorded(p) == readHostState.err = "" /\ readHostState.state.PID = p
C33_OneTrackedBrowser ==
    Alone =>
        /\ Cardinality(LiveBrowsers) <= 1
        /\ \A p \in LiveBrowsers : Recorded(p)


\* C34: when a Stop has ended with success, its record removed, the
\* browser the record named is no longer in the process table; also
\* when the browser ignored SIGTERM for the whole grace window.
C34_StopLeavesNoProcess ==
    \A i \in Invs :
        Done(i, "stop") /\ inv[i].exit = 0 =>
            /\ ~hostFile.exists
            /\ inv[i].state.PID \in PidSet => procs[inv[i].state.PID].kind # "browser"


\* C35: once the recorded browser has exited and its pid belongs to an
\* unrelated process, a Stop sends that process neither SIGTERM nor
\* SIGKILL, and a Start is not rejected as already running on its
\* account.
Unrelated(pid) == pid \in PidSet /\ procs[pid].kind = "other"
SendsSignal(i) ==
    \/ ~inv[i].term /\ inv'[i].term
    \/ ~inv[i].kill /\ inv'[i].kill
RejectsStart(i) ==
    At(i, "start", "read") /\ inv'[i].err = "already running"
C35_OnlyOwnProcess ==
    [][\A i \in Invs :
          /\ SendsSignal(i) => ~Unrelated(inv'[i].state.PID)
          /\ RejectsStart(i) => ~Unrelated(readHostPID)]_vars


\* C36: Status and Logs only read: no step of either creates, changes or
\* removes the record, and none changes the process table (the liveness
\* probe is signal 0); a stale record that Status finds stays in place.
ReadOnlyCommands == {"status", "logs"}
StepOfReadOnly(i) ==
    /\ inv'[i] # inv[i]
    /\ inv[i].cmd \in ReadOnlyCommands \/ inv'[i].cmd \in ReadOnlyCommands
C36_StatusLogsReadOnly ==
    [][\A i \in Invs : StepOfReadOnly(i) => hostFile' = hostFile /\ procs' = procs]_vars

\* A Status has found a stale record and ended; the record is as it was.
C36_Witness ==
    \E i \in Invs :
        /\ Done(i, "status") /\ inv[i].found /\ ~inv[i].alive
        /\ hostFile.exists /\ hostFile = inv[i].before

\* C37: a Load of a settings file that cannot be read or parsed leaves
\* the file as it is and returns the defaults with an error, so the next
\* Load does the same until the file is repaired; a Load of a valid file
\* that returns no error has saved the normalized document.
LoadStep == call'.op = "load"
C37_LoadKeepsCorruptFile ==
    [][LoadStep =>
          /\ call'.found \in {"corrupt", "unreadable"} =>
                /\ setFile' = setFile
                /\ call'.err # ""
                /\ mem' = applySurfSettingsDefaults(defaultSurfSettings)
          /\ call'.found = "complete" /\ call'.err = "" =>
                /\ mem' = applySurfSettingsDefaults(ReadDocument(setFile.data).st)
                /\ \E now \in Stamps : setFile' = FileOf(SaveBytes(mem', now))]_vars

\* A Load has met a corrupt document and left it at the settings path.
C37_Witness ==
    /\ call.op = "load" /\ call.found = "corrupt" /\ call.err = "parse error"
    /\ setFile.exists /\ ~ReadDocument(setFile.data).ok

\* C38: a Set that returns an error (unknown key, text that is no
\* integer for an integer key, invalid tunnel.mode) leaves the settings
\* exactly as they were, not normalized either, and writes nothing; a
\* `config set` run that dies of such an error has saved nothing of its
\* own: the settings path holds what the loads of any command leave.
SetErrors == {"unsupported key", "invalid int", "invalid mode"}
FailedSet == call'.op = "set" /\ call'.err # ""
FailedConfigSet == call'.op = "cli" /\ call'.key = "config set" /\ call'.err \in SetErrors
LeftByLoads(file) ==
    \E now \in Stamps, io \in IOPlans :
        file = main("config show", "", "token", setFile, readable, now, io).file
DriverFailed == wait.pc = "done" /\ wait.err = "docker error"
C39_DriverErrorStopsWait ==
    /\ [](DriverFailed =>
             /\ wait.ret = NoStatus
             /\ wait.calls = Len(wait.seen) + 1
             /\ wait.i = Len(wait.seen)
             /\ wait.i < wait.retries)
    /\ [][wait.pc = "done" => wait' = wait]_vars

\* The driver failed in a later attempt, after a payload that was not ok.
C39_Witness ==
    /\ DriverFailed
    /\ Len(wait.seen) >= 2
    /\ wait.last.Error = "endpoint checks failed"
====
